---- MODULE Spec2Model ----
(***************************************************************************)
(* Model of mcode-cli: the edit engine (pkg/tools/tools.go), the folder    *)
(* permission gate and the tool-call turn loop (pkg/agent/agent.go).       *)
(* Strings are sequences of one-character strings.                         *)
(***************************************************************************)
EXTENDS Integers, Sequences, FiniteSets, TLC

VARIABLES
    epc,        \* edit engine: "ready" before EditFile runs, "done" after
    file,       \* the file at the request's path: [exists, data]
    file0,      \* that file before the request ran
    req,        \* the edit_file parameters (has* tells whether the key is present)
    editRes,    \* what EditFile returned: [ok, kind, err, strategy, match, out]
    writes,     \* number of os.WriteFile calls EditFile made
    repRes,     \* what a direct ReplaceInContent call returned
    ApprovedFolders,  \* Agent.ApprovedFolders: the set of approved paths
    ConfigFolders,    \* Config.ApprovedFolders: the persisted list
    gate,       \* the last permission operation: [op, path, ok]
    Conversation,     \* Agent.Conversation: the messages [role, id, content, calls]
    LastTokenUsage,   \* Agent.LastTokenUsage: [set, PromptTokens]
    CurrentModel,     \* Agent.Config.CurrentModel: the key of the model in use
    pc,         \* where Chat stands: idle, request, fallback, call, folder,
                \* confirm, interrupt, returned
    chatErr,    \* what Chat returned
    toolCalls,  \* the ids of the tool calls of the batch being handled
    idx,        \* the position of handleToolCalls in the batch
    cur,        \* the tool call a prompt is pending for
    pending,    \* the messages Chat holds for its fallback request
    sent,       \* the model requests of this turn: [held, messages, tools, maxTokens]
    ran,        \* the executors started in this turn: [id, how]
    prompts,    \* the prompts shown in this turn: [id, kind]
    outcomes,   \* how the handled tool calls of this turn ended: [id, kind]
    callResponse,  \* the response of the current iteration of handleToolCalls
    nextId      \* the id of the next tool call the model makes in this turn

editVars == <<epc, file, file0, req, editRes, writes, repRes>>
folderVars == <<ApprovedFolders, ConfigFolders, gate>>
agentVars == <<Conversation, LastTokenUsage, CurrentModel, pc, chatErr, toolCalls, idx, cur,
               pending, sent, ran, prompts, outcomes, callResponse, nextId>>
vars == <<editVars, folderVars, agentVars>>

\* ---------------------------------------------------------------- bounds
MaxContentLen == 3
MaxOldLen == 2
MaxDepth == 2
MaxApproved == 1
\* model requests of a turn, tool calls of a turn
MaxRequests == 3
MaxCalls == 2
\* earlier turns of the session; messages of a conversation a further Chat is
\* followed from
MaxHistory == 3
\* non-system messages of a history handed to TrimContext
MaxTrimLen == 7

\* ------------------------------------------------------------- constants
TrimMinLen == 3
keepCount == 6
HighWaterTokens == 25000
OverflowTokens == 6000
DefaultMaxTokens == 8000
ContextWindow == 32000
SafetyBuffer == 1000
MinMaxTokens == 1000
FallbackMaxTokens == 2000

\* ------------------------------------------------------------ characters
NL == "\n"
SP == " "
TAB == "\t"
Alphabet == {"a", SP, NL}
\* a file that does not exist
NoFile == [exists |-> FALSE, data |-> <<>>]
FileOf(data) == [exists |-> TRUE, data |-> data]

\* vertical tab, form feed, carriage return, next line (U+0085) and
\* no-break space (U+00A0), each one character
VT == "\\v"
FF == "\f"
CR == "\r"
NEL == "\\u0085"
NBSP == "\\u00A0"

\* the white space above U+00FF (property White_Space): U+1680,
\* U+2000 to U+200A, U+2028, U+2029, U+202F, U+205F and U+3000
WideSpaces ==
    {"\\u1680", "\\u2000", "\\u2001", "\\u2002", "\\u2003", "\\u2004",
     "\\u2005", "\\u2006", "\\u2007", "\\u2008", "\\u2009", "\\u200A",
     "\\u2028", "\\u2029", "\\u202F", "\\u205F", "\\u3000"}

\* unicode.IsSpace, the characters strings.TrimSpace trims
IsSpace(c) == c \in {SP, TAB, NL, VT, FF, CR, NEL, NBSP} \cup WideSpaces

\* the class \s of package regexp
IsRegexpSpace(c) == c \in {SP, TAB, NL, FF, CR}

RECURSIVE StringsUpTo(_)
StringsUpTo(n) ==
    IF n = 0 THEN {<<>>}
    ELSE LET S == StringsUpTo(n - 1)
         IN S \cup {Append(s, c) : s \in {t \in S : Len(t) = n - 1}, c \in Alphabet}

SetMin(S) == CHOOSE x \in S : \A y \in S : x <= y
SetMax(S) == CHOOSE x \in S : \A y \in S : x >= y

\* ------------------------------------------------- Go's strings package
\* s[i:j] with 0-based, half-open offsets
Slice(s, i, j) == SubSeq(s, i + 1, j)

\* the 0-based offsets at which sub occurs in s
Occurrences(s, sub) ==
    {i \in 0..(Len(s) - Len(sub)) : Slice(s, i, i + Len(sub)) = sub}

MinOr(S, none) == IF S = {} THEN none ELSE SetMin(S)
MaxOr(S, none) == IF S = {} THEN none ELSE SetMax(S)

Index(s, sub) == MinOr(Occurrences(s, sub), -1)

LastIndex(s, sub) == MaxOr(Occurrences(s, sub), -1)

Contains(s, sub) == Index(s, sub) >= 0

\* strings.Split(s, "\n")
RECURSIVE Split(_)
Split(s) ==
    LET i == Index(s, <<NL>>)
    IN IF i < 0 THEN <<s>>
       ELSE <<Slice(s, 0, i)>> \o Split(Slice(s, i + 1, Len(s)))

\* strings.Join(lines, "\n")
RECURSIVE Join(_)
Join(lines) ==
    IF Len(lines) = 0 THEN <<>>
    ELSE IF Len(lines) = 1 THEN lines[1]
    ELSE lines[1] \o <<NL>> \o Join(Tail(lines))

RECURSIVE TrimLeft(_)
TrimLeft(s) ==
    IF Len(s) > 0 /\ IsSpace(s[1]) THEN TrimLeft(Tail(s)) ELSE s

RECURSIVE TrimRight(_)
TrimRight(s) ==
    IF Len(s) > 0 /\ IsSpace(s[Len(s)])
    THEN TrimRight(SubSeq(s, 1, Len(s) - 1)) ELSE s

TrimSpace(s) == TrimRight(TrimLeft(s))

\* strings.Replace(s, old, new, 1)
ReplaceFirst(s, old, new) ==
    LET i == Index(s, old)
    IN IF i < 0 THEN s
       ELSE Slice(s, 0, i) \o new \o Slice(s, i + Len(old), Len(s))

\* strings.ReplaceAll(s, old, new): leftmost non-overlapping occurrences; an
\* empty old matches before every character and at the end
RECURSIVE ReplaceAllNonEmpty(_, _, _)
ReplaceAllNonEmpty(s, old, new) ==
    LET i == Index(s, old)
    IN IF i < 0 THEN s
       ELSE Slice(s, 0, i) \o new
            \o ReplaceAllNonEmpty(Slice(s, i + Len(old), Len(s)), old, new)

RECURSIVE InterleaveEmpty(_, _)
InterleaveEmpty(s, new) ==
    IF Len(s) = 0 THEN new
    ELSE new \o <<s[1]>> \o InterleaveEmpty(Tail(s), new)

ReplaceAll(s, old, new) ==
    IF Len(old) = 0 THEN InterleaveEmpty(s, new)
    ELSE ReplaceAllNonEmpty(s, old, new)

\* ------------------------------------------------------------ replacers
\* SimpleReplacer that never reports the literal
SimpleFindMatches_Never(content, find) == <<>>

\* SimpleReplacer.FindMatches
SimpleFindMatches(content, find) ==
    IF Contains(content, find) THEN <<find>> ELSE <<>>

\* the search lines of LineTrimmedReplacer: a trailing empty line is dropped
SearchLines(find) ==
    LET l == Split(find)
    IN IF Len(l) > 0 /\ l[Len(l)] = <<>> THEN SubSeq(l, 1, Len(l) - 1) ELSE l

RECURSIVE SumLen(_, _)
\* total length of the first n lines
SumLen(lines, n) ==
    IF n = 0 THEN 0 ELSE SumLen(lines, n - 1) + Len(lines[n])

\* line comparison without trimming
LineTrimmedHits_Untrimmed(originalLines, searchLines) ==
    {i \in 0..(Len(originalLines) - Len(searchLines)) :
        \A j \in 1..Len(searchLines) : originalLines[i + j] = searchLines[j]}

\* the 0-based line indexes at which the search lines match once every line
\* is trimmed on both sides
LineTrimmedHits(originalLines, searchLines) ==
    {i \in 0..(Len(originalLines) - Len(searchLines)) :
        \A j \in 1..Len(searchLines) :
            TrimSpace(originalLines[i + j]) = TrimSpace(searchLines[j])}

\* LineTrimmedReplacer.FindMatches: the original text of the first matching run
LineTrimmedFindMatches(content, find) ==
    LET originalLines == Split(content)
        searchLines == SearchLines(find)
        hits == LineTrimmedHits(originalLines, searchLines)
    IN IF hits = {} THEN <<>>
       ELSE LET i == SetMin(hits)
                matchStart == SumLen(originalLines, i) + i
                n == Len(searchLines)
                matchEnd == matchStart
                            + (SumLen(originalLines, i + n) - SumLen(originalLines, i))
                            + (IF n > 0 THEN n - 1 ELSE 0)
            IN <<Slice(content, matchStart, matchEnd)>>

RECURSIVE SkipRegexpSpace(_)
\* s without the run of \s characters it starts with
SkipRegexpSpace(s) ==
    IF Len(s) > 0 /\ IsRegexpSpace(s[1]) THEN SkipRegexpSpace(Tail(s)) ELSE s

RECURSIVE CollapseSpace(_)
\* regexp `\s+` replaced by one space
CollapseSpace(s) ==
    IF Len(s) = 0 THEN <<>>
    ELSE IF IsRegexpSpace(s[1]) THEN <<SP>> \o CollapseSpace(SkipRegexpSpace(s))
    ELSE <<s[1]>> \o CollapseSpace(Tail(s))

normalizeWhitespace(text) == CollapseSpace(TrimSpace(text))

\* the blocks of k consecutive lines, in order of their first line
Blocks(lines, k) ==
    IF Len(lines) - k < 0 THEN <<>>
    ELSE [i \in 1..(Len(lines) - k + 1) |-> Join(SubSeq(lines, i, i + k - 1))]

\* WhitespaceNormalizedReplacer.FindMatches
WhitespaceNormalizedFindMatches(content, find) ==
    LET normalizedFind == normalizeWhitespace(find)
        lines == Split(content)
        findLines == Split(find)
        Same(t) == normalizeWhitespace(t) = normalizedFind
        single == SelectSeq(lines, Same)
        multi == IF Len(findLines) > 1
                 THEN SelectSeq(Blocks(lines, Len(findLines)), Same)
                 ELSE <<>>
    IN single \o multi

IsBlank(line) == TrimSpace(line) = <<>>

RECURSIVE LeadingSpaces(_)
\* number of leading ' ' and '\t' characters
LeadingSpaces(line) ==
    IF Len(line) > 0 /\ line[1] \in {SP, TAB}
    THEN 1 + LeadingSpaces(Tail(line)) ELSE 0

\* removeIndentation of IndentationFlexibleReplacer
removeIndentation(text) ==
    LET lines == Split(text)
        nonEmptyLines == SelectSeq(lines, LAMBDA l : ~IsBlank(l))
    IN IF Len(nonEmptyLines) = 0 THEN text
       ELSE LET minIndent ==
                    SetMin({Len(nonEmptyLines[1])}
                           \cup {LeadingSpaces(nonEmptyLines[k]) :
                                    k \in 1..Len(nonEmptyLines)})
                Strip(line) ==
                    IF IsBlank(line) THEN line
                    ELSE IF Len(line) > minIndent
                    THEN Slice(line, minIndent, Len(line))
                    ELSE line
            IN Join([k \in 1..Len(lines) |-> Strip(lines[k])])

\* IndentationFlexibleReplacer.FindMatches
IndentationFlexibleFindMatches(content, find) ==
    LET normalizedFind == removeIndentation(find)
        contentLines == Split(content)
        findLines == Split(find)
        Same(t) == removeIndentation(t) = normalizedFind
    IN SelectSeq(Blocks(contentLines, Len(findLines)), Same)

\* the replacers in the order ReplaceInContent tries them
Strategies == <<"exact", "line-trimmed", "whitespace-normalized", "indentation-flexible">>

\* the candidates of one strategy, each tagged with it
Tagged(strategy, m) ==
    [k \in 1..Len(m) |-> [strategy |-> strategy, match |-> m[k]]]

\* every candidate in the order the two nested loops visit them
Candidates(content, find) ==
    Tagged(Strategies[1], SimpleFindMatches(content, find))
    \o Tagged(Strategies[2], LineTrimmedFindMatches(content, find))
    \o Tagged(Strategies[3], WhitespaceNormalizedFindMatches(content, find))
    \o Tagged(Strategies[4], IndentationFlexibleFindMatches(content, find))

\* inner loop without the uniqueness test
Usable_Always(content, match, replaceAll) == TRUE

\* the uniqueness test of the inner loop
Usable(content, match, replaceAll) ==
    replaceAll \/ Index(content, match) = LastIndex(content, match)

\* substitution that replaces the first occurrence only
Substitute_FirstOnly(content, match, newString, replaceAll) ==
    ReplaceFirst(content, match, newString)

\* the substitution of the inner loop
Substitute(content, match, newString, replaceAll) ==
    IF replaceAll THEN ReplaceAll(content, match, newString)
    ELSE ReplaceFirst(content, match, newString)

NoStrategy == "none"

ReplaceError(err) ==
    [ok |-> FALSE, err |-> err, out |-> <<>>, strategy |-> NoStrategy, match |-> <<>>]

\* the return of the inner loop for candidate c
ReplaceWith(content, c, newString, replaceAll) ==
    [ok |-> TRUE, err |-> "",
     out |-> Substitute(content, c.match, newString, replaceAll),
     strategy |-> c.strategy, match |-> c.match]

\* the positions of the candidates that pass the uniqueness test
UsableAt(content, cands, replaceAll) ==
    {k \in 1..Len(cands) : Usable(content, cands[k].match, replaceAll)}

\* loops that end the search at the first candidate that is not usable
FirstUsable_EndsAtUnusable(content, cands, usable, newString, replaceAll) ==
    IF usable = {} \/ 1 \notin usable THEN ReplaceError("nomatch")
    ELSE ReplaceWith(content, cands[1], newString, replaceAll)

\* the loops over the candidates: the first usable one is substituted
FirstUsable(content, cands, usable, newString, replaceAll) ==
    IF usable = {} THEN ReplaceError("nomatch")
    ELSE ReplaceWith(content, cands[SetMin(usable)], newString, replaceAll)

ReplaceLoop(content, cands, newString, replaceAll) ==
    FirstUsable(content, cands, UsableAt(content, cands, replaceAll),
                newString, replaceAll)

\* ReplaceInContent: [ok, err, out, strategy, match]
ReplaceInContent(content, oldString, newString, replaceAll) ==
    IF oldString = newString THEN ReplaceError("noop")
    ELSE ReplaceLoop(content, Candidates(content, oldString), newString, replaceAll)

\* ----------------------------------------------------------- edit_file
\* os.WriteFile: succeeds, fails before touching the file, or fails after
\* truncating it
WriteOutcomes == {"ok", "open-failed", "write-failed"}

WriteFile(f, data, w) ==
    CASE w = "ok" -> FileOf(data)
      [] w = "open-failed" -> f
      [] w = "write-failed" -> FileOf(<<>>)

EditResult(ok, kind, err, r) ==
    [ok |-> ok, kind |-> kind, err |-> err,
     strategy |-> r.strategy, match |-> r.match, out |-> r.out]

NoReplace == [strategy |-> NoStrategy, match |-> <<>>, out |-> <<>>]

\* an end of performIncrementalEdit that writes whatever ReplaceInContent
\* returned, its error included
WriteReplaced_Always(f, r, w) ==
    [res |-> IF r.ok /\ w = "ok" THEN EditResult(TRUE, "edited", "", r)
             ELSE EditResult(FALSE, "", IF r.ok THEN "write" ELSE r.err, r),
     file |-> WriteFile(f, r.out, w), writes |-> 1]

\* the end of performIncrementalEdit, r being what ReplaceInContent returned
WriteReplaced(f, r, w) ==
    IF ~r.ok
    THEN [res |-> EditResult(FALSE, "", r.err, NoReplace), file |-> f, writes |-> 0]
    ELSE [res |-> IF w = "ok" THEN EditResult(TRUE, "edited", "", r)
                  ELSE EditResult(FALSE, "", "write", r),
          file |-> WriteFile(f, r.out, w), writes |-> 1]

\* an incremental edit that reads the file and searches whatever oldString is
performIncrementalEdit_AlwaysSearches(f, oldString, newString, replaceAll, w) ==
    IF ~f.exists
    THEN [res |-> EditResult(FALSE, "", "read", NoReplace), file |-> f, writes |-> 0]
    ELSE WriteReplaced(f, ReplaceInContent(f.data, oldString, newString, replaceAll), w)

\* performIncrementalEdit: [res, file, writes]
performIncrementalEdit(f, oldString, newString, replaceAll, w) ==
    IF oldString = <<>>
    THEN [res |-> IF w = "ok" THEN EditResult(TRUE, "created", "", NoReplace)
                  ELSE EditResult(FALSE, "", "create", NoReplace),
          file |-> WriteFile(f, newString, w), writes |-> 1]
    ELSE IF ~f.exists
    THEN [res |-> EditResult(FALSE, "", "read", NoReplace), file |-> f, writes |-> 0]
    ELSE WriteReplaced(f, ReplaceInContent(f.data, oldString, newString, replaceAll), w)

\* performFullFileEdit: [res, file, writes]
performFullFileEdit(f, content, w) ==
    LET oldContent == IF f.exists THEN f.data ELSE <<>>
    IN [res |-> IF w # "ok" THEN EditResult(FALSE, "", "write", NoReplace)
                ELSE IF oldContent = <<>> THEN EditResult(TRUE, "created", "", NoReplace)
                ELSE IF oldContent # content THEN EditResult(TRUE, "modified", "", NoReplace)
                ELSE EditResult(TRUE, "unchanged", "", NoReplace),
        file |-> WriteFile(f, content, w), writes |-> 1]

\* Manager.EditFile: [res, file, writes]
EditFileCall(f, p, w) ==
    IF ~p.hasPath
    THEN [res |-> EditResult(FALSE, "", "param", NoReplace), file |-> f, writes |-> 0]
    ELSE IF p.hasOld
    THEN IF ~p.hasNew
         THEN [res |-> EditResult(FALSE, "", "param", NoReplace),
               file |-> f, writes |-> 0]
         ELSE performIncrementalEdit(f, p.oldString, p.newString, p.replaceAll, w)
    ELSE IF p.hasNew
    THEN performIncrementalEdit(f, <<>>, p.newString, FALSE, w)
    ELSE IF p.hasContent
    THEN performFullFileEdit(f, p.content, w)
    ELSE [res |-> EditResult(FALSE, "", "param", NoReplace), file |-> f, writes |-> 0]

\* ------------------------------------------------------ permission gate
\* A path is the sequence of its components, a component a string of
\* characters; a raw path is absolute or relative to the working directory.
DOT == "."
SLASH == "/"
Dot == <<DOT>>
DotDot == <<DOT, DOT>>
Names == {<<"a">>, <<DOT, DOT, "a">>}
Cwd == <<<<"a">>>>

RawPath(abs, comps) == [abs |-> abs, comps |-> comps]

RECURSIVE CompsUpTo(_)
CompsUpTo(n) ==
    IF n = 0 THEN {<<>>}
    ELSE {<<>>} \cup {<<c>> \o t : c \in Names, t \in CompsUpTo(n - 1)}

\* the paths callers pass: named components, possibly followed by "." or ".."
RawPaths ==
    {RawPath(a, c \o e) :
        a \in BOOLEAN, c \in CompsUpTo(MaxDepth), e \in {<<>>, <<Dot>>, <<DotDot>>}}

DropLast(q) == SubSeq(q, 1, Len(q) - 1)

RECURSIVE CleanFrom(_, _)
\* filepath.Clean of a rooted path: "." is dropped, ".." removes the
\* component before it and is dropped at the root
CleanFrom(done, rest) ==
    IF rest = <<>> THEN done
    ELSE IF rest[1] = Dot THEN CleanFrom(done, Tail(rest))
    ELSE IF rest[1] = DotDot
    THEN CleanFrom(IF done = <<>> THEN done ELSE DropLast(done), Tail(rest))
    ELSE CleanFrom(Append(done, rest[1]), Tail(rest))

\* filepath.Abs
Abs(raw) == CleanFrom(<<>>, IF raw.abs THEN raw.comps ELSE Cwd \o raw.comps)

\* the number of leading components two paths share
CommonLen(b, t) ==
    SetMax({k \in 0..Len(b) : k <= Len(t) /\ SubSeq(b, 1, k) = SubSeq(t, 1, k)})

RECURSIVE JoinPath(_)
\* components joined by the separator
JoinPath(comps) ==
    IF Len(comps) = 0 THEN <<>>
    ELSE IF Len(comps) = 1 THEN comps[1]
    ELSE comps[1] \o <<SLASH>> \o JoinPath(Tail(comps))

\* the components of filepath.Rel(b, t), given the k components they share
RelComps(b, t, k) ==
    [i \in 1..(Len(b) - k) |-> DotDot] \o SubSeq(t, k + 1, Len(t))

RelString(comps) == IF comps = <<>> THEN Dot ELSE JoinPath(comps)

\* filepath.Rel(b, t) of two clean absolute paths, as a string
Rel(b, t) == RelString(RelComps(b, t, CommonLen(b, t)))

\* strings.HasPrefix
HasPrefix(str, prefix) ==
    Len(str) >= Len(prefix) /\ SubSeq(str, 1, Len(prefix)) = prefix

\* a test that takes every other folder for a folder below
Within_Anywhere(rel) == rel # Dot

\* the test of the loop of IsFolderApproved on one relative path
Within(rel) == ~HasPrefix(rel, DotDot) /\ rel # Dot

\* IsFolderApproved on the normalised path
\* filepath.Abs of each path a caller of the gate passes, computed once
AbsOf == [raw \in RawPaths |-> Abs(raw)]
AbsPaths == {AbsOf[raw] : raw \in RawPaths}

\* for each of these folders, the paths the loop's test accepts, computed once
WithinOf == [b \in AbsPaths |-> {t \in AbsPaths : Within(Rel(b, t))}]

\* one iteration of the loop of IsFolderApproved
IsWithin(approvedFolder, absPath) ==
    IF approvedFolder \in AbsPaths /\ absPath \in AbsPaths
    THEN absPath \in WithinOf[approvedFolder]
    ELSE Within(Rel(approvedFolder, absPath))

IsAbsApproved(approved, absPath) ==
    \/ absPath \in approved
    \/ \E approvedFolder \in approved : IsWithin(approvedFolder, absPath)

IsFolderApproved(approved, folderPath) == IsAbsApproved(approved, Abs(folderPath))

\* the operator's answer to a prompt, lower-cased and trimmed
YesAnswers == {"", "y", "yes"}
FolderAnswers == YesAnswers \cup {"n"}

Gate(op, path, ok) == [op |-> op, path |-> path, ok |-> ok]
NoGate == Gate("none", <<>>, FALSE)

\* the folders of a list
Listed(list) == {list[k] : k \in 1..Len(list)}

\* New for a configuration whose ApprovedFolders is approvedFolders: the set
\* holds the entries of the list
GateNew(approvedFolders) ==
    /\ ApprovedFolders = Listed(approvedFolders)
    /\ ConfigFolders = approvedFolders
    /\ gate = NoGate

\* the lists a configuration holds when a session starts: none approved
\* yet, or the folder of the file the agent's tool calls name, saved by an
\* earlier session
ConfigLists == {<<>>, <<Cwd>>}

GateIdle == \E approvedFolders \in ConfigLists : GateNew(approvedFolders)

\* the answer of IsFolderApproved for a path that normalises to absPath
CheckAbs(absPath) ==
    /\ gate' = Gate("check", absPath, IsAbsApproved(ApprovedFolders, absPath))
    /\ UNCHANGED <<ApprovedFolders, ConfigFolders>>

\* one call IsFolderApproved(a, folderPath)
CheckFolder(folderPath) == CheckAbs(AbsOf[folderPath])

\* RequestFolderPermission after the path is normalised to absPath
RequestAbs(absPath, response) ==
    IF IsAbsApproved(ApprovedFolders, absPath)
    THEN /\ gate' = Gate("request", absPath, TRUE)
         /\ UNCHANGED <<ApprovedFolders, ConfigFolders>>
    ELSE IF response \in YesAnswers
    THEN /\ ApprovedFolders' = ApprovedFolders \cup {absPath}
         /\ ConfigFolders' = Append(ConfigFolders, absPath)
         /\ gate' = Gate("request", absPath, TRUE)
    ELSE /\ gate' = Gate("request", absPath, FALSE)
         /\ UNCHANGED <<ApprovedFolders, ConfigFolders>>

\* RequestFolderPermission when the operator's answer is response
RequestFolderPermission(folderPath, response) ==
    RequestAbs(AbsOf[folderPath], response)

\* a removal that updates the persisted list and leaves the set alone
RemoveAbs_ListOnly(absPath) ==
    IF \E k \in 1..Len(ConfigFolders) : ConfigFolders[k] = absPath
    THEN /\ ConfigFolders' = SelectSeq(ConfigFolders, LAMBDA f : f # absPath)
         /\ gate' = Gate("remove", absPath, TRUE)
         /\ UNCHANGED ApprovedFolders
    ELSE /\ gate' = Gate("remove", absPath, FALSE)
         /\ UNCHANGED <<ApprovedFolders, ConfigFolders>>

\* removeFolderPermission after the path is normalised to absPath
RemoveAbs(absPath) ==
    IF \E k \in 1..Len(ConfigFolders) : ConfigFolders[k] = absPath
    THEN /\ ConfigFolders' = SelectSeq(ConfigFolders, LAMBDA f : f # absPath)
         /\ ApprovedFolders' = ApprovedFolders \ {absPath}
         /\ gate' = Gate("remove", absPath, TRUE)
    ELSE /\ gate' = Gate("remove", absPath, FALSE)
         /\ UNCHANGED <<ApprovedFolders, ConfigFolders>>

\* removeFolderPermission: /permissions remove <path>
RemoveFolderPermission(folderPath) == RemoveAbs(AbsOf[folderPath])

\* New: a session starts and rebuilds the set from the persisted list
LoadApprovedFolders ==
    /\ ApprovedFolders' = Listed(ConfigFolders)
    /\ gate' = Gate("load", <<>>, TRUE)
    /\ UNCHANGED ConfigFolders

\* the parameters of an edit_file call
Request(hasPath, hasOld, old, hasNew, new, all, hasContent, content) ==
    [hasPath |-> hasPath, hasOld |-> hasOld, oldString |-> old,
     hasNew |-> hasNew, newString |-> new, replaceAll |-> all,
     hasContent |-> hasContent, content |-> content]

NoResult == EditResult(FALSE, "pending", "", NoReplace)

NoReplaceResult ==
    [ok |-> FALSE, err |-> "pending", out |-> <<>>,
     strategy |-> NoStrategy, match |-> <<>>]

\* ============================================================ the agent
\* ---------------------------------------------------------- conversation
Msg(role, id, content, calls) ==
    [role |-> role, id |-> id, content |-> content, calls |-> calls]
\* a text of one piece; a text that a format string builds is the sequence of
\* its pieces
Text(str) == <<str>>

\* the system message of Chat; its content is systemPrompt
SystemMsg == Msg("system", 0, Text("system prompt"), <<>>)
\* the system message of LoadProjectContext, agentsContent being the text of
\* AGENTS.md
ProjectContextMsg ==
    Msg("system", 0, <<"Project context from AGENTS.md:\n\n", "agentsContent">>, <<>>)
UserMsg(text) == Msg("user", 0, Text(text), <<>>)
\* the assistant message of a response; calls are the ids of its tool calls
AssistantMsg(calls) == Msg("assistant", 0, Text("reply"), calls)
ToolMsg(id, content) == Msg("tool", id, content, <<>>)

IsSystem(m) == m.role = "system"
NotSystem(m) == m.role # "system"
LastN(s, n) == SubSeq(s, Len(s) - n + 1, Len(s))

\* a trim that keeps the last keepCount messages only
TrimContext_RecentOnly(messages) ==
    IF Len(messages) <= TrimMinLen THEN messages
    ELSE SelectSeq(IF Len(messages) > keepCount
                   THEN LastN(messages, keepCount) ELSE messages, NotSystem)

\* TrimContext: the system messages, then the non-system messages among the
\* last keepCount messages
TrimContext(messages) ==
    IF Len(messages) <= TrimMinLen THEN messages
    ELSE SelectSeq(messages, IsSystem)
         \o SelectSeq(IF Len(messages) > keepCount
                      THEN LastN(messages, keepCount) ELSE messages, NotSystem)

\* Agent.LastTokenUsage: nil until the first response
NoUsage == [set |-> FALSE, PromptTokens |-> 0]
Usage(n) == [set |-> TRUE, PromptTokens |-> n]

\* the messages Chat puts in its request
RequestMessages(conv, usage) ==
    IF usage.set /\ usage.PromptTokens > HighWaterTokens
    THEN TrimContext(conv) ELSE conv

Most(a, b) == IF a > b THEN a ELSE b

\* the MaxTokens Chat puts in its request
RequestMaxTokens(usage) ==
    IF ~usage.set THEN DefaultMaxTokens
    ELSE IF ContextWindow - usage.PromptTokens - SafetyBuffer < DefaultMaxTokens
    THEN Most(ContextWindow - usage.PromptTokens - SafetyBuffer, MinMaxTokens)
    ELSE DefaultMaxTokens

\* a request: what it carries, and the conversation Chat held when it
\* built the request
ModelReq(held, messages, tools, maxTokens) ==
    [held |-> held, messages |-> messages, tools |-> tools,
     maxTokens |-> maxTokens]

\* ------------------------------------------------------------ tool calls
\* Agent.Tools after RegisterTools
RegisteredTools ==
    {"read_file", "list_files", "bash_command", "edit_file", "search_code"}
\* the tools handleToolCalls checks folder permission for
FolderTools == {"list_files", "read_file", "preview_edit"}

UpperCase ==
    <<"A", "B", "C", "D", "E", "F", "G", "H", "I", "J", "K", "L", "M", "N", "O", "P", "Q", "R", "S", "T", "U", "V", "W", "X", "Y", "Z">>
LowerCase ==
    <<"a", "b", "c", "d", "e", "f", "g", "h", "i", "j", "k", "l", "m", "n", "o", "p", "q", "r", "s", "t", "u", "v", "w", "x", "y", "z">>
\* the characters above U+007F that unicode.ToLower changes, each with the
\* character it gives: the simple lower-case mappings of the Unicode
\* character database (version 14.0.0; U+0130 and U+212A give the ASCII
\* letters i and k). A character outside ASCII is written as its code point
CaseRanges ==
    {<<"\\u00C0", "\\u00E0">>, <<"\\u00C1", "\\u00E1">>, <<"\\u00C2", "\\u00E2">>,
     <<"\\u00C3", "\\u00E3">>, <<"\\u00C4", "\\u00E4">>, <<"\\u00C5", "\\u00E5">>,
     <<"\\u00C6", "\\u00E6">>, <<"\\u00C7", "\\u00E7">>, <<"\\u00C8", "\\u00E8">>,
     <<"\\u00C9", "\\u00E9">>, <<"\\u00CA", "\\u00EA">>, <<"\\u00CB", "\\u00EB">>,
     <<"\\u00CC", "\\u00EC">>, <<"\\u00CD", "\\u00ED">>, <<"\\u00CE", "\\u00EE">>,
     <<"\\u00CF", "\\u00EF">>, <<"\\u00D0", "\\u00F0">>, <<"\\u00D1", "\\u00F1">>,
     <<"\\u00D2", "\\u00F2">>, <<"\\u00D3", "\\u00F3">>, <<"\\u00D4", "\\u00F4">>,
     <<"\\u00D5", "\\u00F5">>, <<"\\u00D6", "\\u00F6">>, <<"\\u00D8", "\\u00F8">>,
     <<"\\u00D9", "\\u00F9">>, <<"\\u00DA", "\\u00FA">>, <<"\\u00DB", "\\u00FB">>,
     <<"\\u00DC", "\\u00FC">>, <<"\\u00DD", "\\u00FD">>, <<"\\u00DE", "\\u00FE">>,
     <<"\\u0100", "\\u0101">>, <<"\\u0102", "\\u0103">>, <<"\\u0104", "\\u0105">>,
     <<"\\u0106", "\\u0107">>, <<"\\u0108", "\\u0109">>, <<"\\u010A", "\\u010B">>,
     <<"\\u010C", "\\u010D">>, <<"\\u010E", "\\u010F">>, <<"\\u0110", "\\u0111">>,
     <<"\\u0112", "\\u0113">>, <<"\\u0114", "\\u0115">>, <<"\\u0116", "\\u0117">>,
     <<"\\u0118", "\\u0119">>, <<"\\u011A", "\\u011B">>, <<"\\u011C", "\\u011D">>,
     <<"\\u011E", "\\u011F">>, <<"\\u0120", "\\u0121">>, <<"\\u0122", "\\u0123">>,
     <<"\\u0124", "\\u0125">>, <<"\\u0126", "\\u0127">>, <<"\\u0128", "\\u0129">>,
     <<"\\u012A", "\\u012B">>, <<"\\u012C", "\\u012D">>, <<"\\u012E", "\\u012F">>,
     <<"\\u0130", "i">>, <<"\\u0132", "\\u0133">>, <<"\\u0134", "\\u0135">>,
     <<"\\u0136", "\\u0137">>, <<"\\u0139", "\\u013A">>, <<"\\u013B", "\\u013C">>,
     <<"\\u013D", "\\u013E">>, <<"\\u013F", "\\u0140">>, <<"\\u0141", "\\u0142">>,
     <<"\\u0143", "\\u0144">>, <<"\\u0145", "\\u0146">>, <<"\\u0147", "\\u0148">>,
     <<"\\u014A", "\\u014B">>, <<"\\u014C", "\\u014D">>, <<"\\u014E", "\\u014F">>,
     <<"\\u0150", "\\u0151">>, <<"\\u0152", "\\u0153">>, <<"\\u0154", "\\u0155">>,
     <<"\\u0156", "\\u0157">>, <<"\\u0158", "\\u0159">>, <<"\\u015A", "\\u015B">>,
     <<"\\u015C", "\\u015D">>, <<"\\u015E", "\\u015F">>, <<"\\u0160", "\\u0161">>,
     <<"\\u0162", "\\u0163">>, <<"\\u0164", "\\u0165">>, <<"\\u0166", "\\u0167">>,
     <<"\\u0168", "\\u0169">>, <<"\\u016A", "\\u016B">>, <<"\\u016C", "\\u016D">>,
     <<"\\u016E", "\\u016F">>, <<"\\u0170", "\\u0171">>, <<"\\u0172", "\\u0173">>,
     <<"\\u0174", "\\u0175">>, <<"\\u0176", "\\u0177">>, <<"\\u0178", "\\u00FF">>,
     <<"\\u0179", "\\u017A">>, <<"\\u017B", "\\u017C">>, <<"\\u017D", "\\u017E">>,
     <<"\\u0181", "\\u0253">>, <<"\\u0182", "\\u0183">>, <<"\\u0184", "\\u0185">>,
     <<"\\u0186", "\\u0254">>, <<"\\u0187", "\\u0188">>, <<"\\u0189", "\\u0256">>,
     <<"\\u018A", "\\u0257">>, <<"\\u018B", "\\u018C">>, <<"\\u018E", "\\u01DD">>,
     <<"\\u018F", "\\u0259">>, <<"\\u0190", "\\u025B">>, <<"\\u0191", "\\u0192">>,
     <<"\\u0193", "\\u0260">>, <<"\\u0194", "\\u0263">>, <<"\\u0196", "\\u0269">>,
     <<"\\u0197", "\\u0268">>, <<"\\u0198", "\\u0199">>, <<"\\u019C", "\\u026F">>,
     <<"\\u019D", "\\u0272">>, <<"\\u019F", "\\u0275">>, <<"\\u01A0", "\\u01A1">>,
     <<"\\u01A2", "\\u01A3">>, <<"\\u01A4", "\\u01A5">>, <<"\\u01A6", "\\u0280">>,
     <<"\\u01A7", "\\u01A8">>, <<"\\u01A9", "\\u0283">>, <<"\\u01AC", "\\u01AD">>,
     <<"\\u01AE", "\\u0288">>, <<"\\u01AF", "\\u01B0">>, <<"\\u01B1", "\\u028A">>,
     <<"\\u01B2", "\\u028B">>, <<"\\u01B3", "\\u01B4">>, <<"\\u01B5", "\\u01B6">>,
     <<"\\u01B7", "\\u0292">>, <<"\\u01B8", "\\u01B9">>, <<"\\u01BC", "\\u01BD">>,
     <<"\\u01C4", "\\u01C6">>, <<"\\u01C5", "\\u01C6">>, <<"\\u01C7", "\\u01C9">>,
     <<"\\u01C8", "\\u01C9">>, <<"\\u01CA", "\\u01CC">>, <<"\\u01CB", "\\u01CC">>,
     <<"\\u01CD", "\\u01CE">>, <<"\\u01CF", "\\u01D0">>, <<"\\u01D1", "\\u01D2">>,
     <<"\\u01D3", "\\u01D4">>, <<"\\u01D5", "\\u01D6">>, <<"\\u01D7", "\\u01D8">>,
     <<"\\u01D9", "\\u01DA">>, <<"\\u01DB", "\\u01DC">>, <<"\\u01DE", "\\u01DF">>,
     <<"\\u01E0", "\\u01E1">>, <<"\\u01E2", "\\u01E3">>, <<"\\u01E4", "\\u01E5">>,
     <<"\\u01E6", "\\u01E7">>, <<"\\u01E8", "\\u01E9">>, <<"\\u01EA", "\\u01EB">>,
     <<"\\u01EC", "\\u01ED">>, <<"\\u01EE", "\\u01EF">>, <<"\\u01F1", "\\u01F3">>,
     <<"\\u01F2", "\\u01F3">>, <<"\\u01F4", "\\u01F5">>, <<"\\u01F6", "\\u0195">>,
     <<"\\u01F7", "\\u01BF">>, <<"\\u01F8", "\\u01F9">>, <<"\\u01FA", "\\u01FB">>,
     <<"\\u01FC", "\\u01FD">>, <<"\\u01FE", "\\u01FF">>, <<"\\u0200", "\\u0201">>,
     <<"\\u0202", "\\u0203">>, <<"\\u0204", "\\u0205">>, <<"\\u0206", "\\u0207">>,
     <<"\\u0208", "\\u0209">>, <<"\\u020A", "\\u020B">>, <<"\\u020C", "\\u020D">>,
     <<"\\u020E", "\\u020F">>, <<"\\u0210", "\\u0211">>, <<"\\u0212", "\\u0213">>,
     <<"\\u0214", "\\u0215">>, <<"\\u0216", "\\u0217">>, <<"\\u0218", "\\u0219">>,
     <<"\\u021A", "\\u021B">>, <<"\\u021C", "\\u021D">>, <<"\\u021E", "\\u021F">>,
     <<"\\u0220", "\\u019E">>, <<"\\u0222", "\\u0223">>, <<"\\u0224", "\\u0225">>,
     <<"\\u0226", "\\u0227">>, <<"\\u0228", "\\u0229">>, <<"\\u022A", "\\u022B">>,
     <<"\\u022C", "\\u022D">>, <<"\\u022E", "\\u022F">>, <<"\\u0230", "\\u0231">>,
     <<"\\u0232", "\\u0233">>, <<"\\u023A", "\\u2C65">>, <<"\\u023B", "\\u023C">>,
     <<"\\u023D", "\\u019A">>, <<"\\u023E", "\\u2C66">>, <<"\\u0241", "\\u0242">>,
     <<"\\u0243", "\\u0180">>, <<"\\u0244", "\\u0289">>, <<"\\u0245", "\\u028C">>,
     <<"\\u0246", "\\u0247">>, <<"\\u0248", "\\u0249">>, <<"\\u024A", "\\u024B">>,
     <<"\\u024C", "\\u024D">>, <<"\\u024E", "\\u024F">>, <<"\\u0370", "\\u0371">>,
     <<"\\u0372", "\\u0373">>, <<"\\u0376", "\\u0377">>, <<"\\u037F", "\\u03F3">>,
     <<"\\u0386", "\\u03AC">>, <<"\\u0388", "\\u03AD">>, <<"\\u0389", "\\u03AE">>,
     <<"\\u038A", "\\u03AF">>, <<"\\u038C", "\\u03CC">>, <<"\\u038E", "\\u03CD">>,
     <<"\\u038F", "\\u03CE">>, <<"\\u0391", "\\u03B1">>, <<"\\u0392", "\\u03B2">>,
     <<"\\u0393", "\\u03B3">>, <<"\\u0394", "\\u03B4">>, <<"\\u0395", "\\u03B5">>,
     <<"\\u0396", "\\u03B6">>, <<"\\u0397", "\\u03B7">>, <<"\\u0398", "\\u03B8">>,
     <<"\\u0399", "\\u03B9">>, <<"\\u039A", "\\u03BA">>, <<"\\u039B", "\\u03BB">>,
     <<"\\u039C", "\\u03BC">>, <<"\\u039D", "\\u03BD">>, <<"\\u039E", "\\u03BE">>,
     <<"\\u039F", "\\u03BF">>, <<"\\u03A0", "\\u03C0">>, <<"\\u03A1", "\\u03C1">>,
     <<"\\u03A3", "\\u03C3">>, <<"\\u03A4", "\\u03C4">>, <<"\\u03A5", "\\u03C5">>,
     <<"\\u03A6", "\\u03C6">>, <<"\\u03A7", "\\u03C7">>, <<"\\u03A8", "\\u03C8">>,
     <<"\\u03A9", "\\u03C9">>, <<"\\u03AA", "\\u03CA">>, <<"\\u03AB", "\\u03CB">>,
     <<"\\u03CF", "\\u03D7">>, <<"\\u03D8", "\\u03D9">>, <<"\\u03DA", "\\u03DB">>,
     <<"\\u03DC", "\\u03DD">>, <<"\\u03DE", "\\u03DF">>, <<"\\u03E0", "\\u03E1">>,
     <<"\\u03E2", "\\u03E3">>, <<"\\u03E4", "\\u03E5">>, <<"\\u03E6", "\\u03E7">>,
     <<"\\u03E8", "\\u03E9">>, <<"\\u03EA", "\\u03EB">>, <<"\\u03EC", "\\u03ED">>,
     <<"\\u03EE", "\\u03EF">>, <<"\\u03F4", "\\u03B8">>, <<"\\u03F7", "\\u03F8">>,
     <<"\\u03F9", "\\u03F2">>, <<"\\u03FA", "\\u03FB">>, <<"\\u03FD", "\\u037B">>,
     <<"\\u03FE", "\\u037C">>, <<"\\u03FF", "\\u037D">>, <<"\\u0400", "\\u0450">>,
     <<"\\u0401", "\\u0451">>, <<"\\u0402", "\\u0452">>, <<"\\u0403", "\\u0453">>,
     <<"\\u0404", "\\u0454">>, <<"\\u0405", "\\u0455">>, <<"\\u0406", "\\u0456">>,
     <<"\\u0407", "\\u0457">>, <<"\\u0408", "\\u0458">>, <<"\\u0409", "\\u0459">>,
     <<"\\u040A", "\\u045A">>, <<"\\u040B", "\\u045B">>, <<"\\u040C", "\\u045C">>,
     <<"\\u040D", "\\u045D">>, <<"\\u040E", "\\u045E">>, <<"\\u040F", "\\u045F">>,
     <<"\\u0410", "\\u0430">>, <<"\\u0411", "\\u0431">>, <<"\\u0412", "\\u0432">>,
     <<"\\u0413", "\\u0433">>, <<"\\u0414", "\\u0434">>, <<"\\u0415", "\\u0435">>,
     <<"\\u0416", "\\u0436">>, <<"\\u0417", "\\u0437">>, <<"\\u0418", "\\u0438">>,
     <<"\\u0419", "\\u0439">>, <<"\\u041A", "\\u043A">>, <<"\\u041B", "\\u043B">>,
     <<"\\u041C", "\\u043C">>, <<"\\u041D", "\\u043D">>, <<"\\u041E", "\\u043E">>,
     <<"\\u041F", "\\u043F">>, <<"\\u0420", "\\u0440">>, <<"\\u0421", "\\u0441">>,
     <<"\\u0422", "\\u0442">>, <<"\\u0423", "\\u0443">>, <<"\\u0424", "\\u0444">>,
     <<"\\u0425", "\\u0445">>, <<"\\u0426", "\\u0446">>, <<"\\u0427", "\\u0447">>,
     <<"\\u0428", "\\u0448">>, <<"\\u0429", "\\u0449">>, <<"\\u042A", "\\u044A">>,
     <<"\\u042B", "\\u044B">>, <<"\\u042C", "\\u044C">>, <<"\\u042D", "\\u044D">>,
     <<"\\u042E", "\\u044E">>, <<"\\u042F", "\\u044F">>, <<"\\u0460", "\\u0461">>,
     <<"\\u0462", "\\u0463">>, <<"\\u0464", "\\u0465">>, <<"\\u0466", "\\u0467">>,
     <<"\\u0468", "\\u0469">>, <<"\\u046A", "\\u046B">>, <<"\\u046C", "\\u046D">>,
     <<"\\u046E", "\\u046F">>, <<"\\u0470", "\\u0471">>, <<"\\u0472", "\\u0473">>,
     <<"\\u0474", "\\u0475">>, <<"\\u0476", "\\u0477">>, <<"\\u0478", "\\u0479">>,
     <<"\\u047A", "\\u047B">>, <<"\\u047C", "\\u047D">>, <<"\\u047E", "\\u047F">>,
     <<"\\u0480", "\\u0481">>, <<"\\u048A", "\\u048B">>, <<"\\u048C", "\\u048D">>,
     <<"\\u048E", "\\u048F">>, <<"\\u0490", "\\u0491">>, <<"\\u0492", "\\u0493">>,
     <<"\\u0494", "\\u0495">>, <<"\\u0496", "\\u0497">>, <<"\\u0498", "\\u0499">>,
     <<"\\u049A", "\\u049B">>, <<"\\u049C", "\\u049D">>, <<"\\u049E", "\\u049F">>,
     <<"\\u04A0", "\\u04A1">>, <<"\\u04A2", "\\u04A3">>, <<"\\u04A4", "\\u04A5">>,
     <<"\\u04A6", "\\u04A7">>, <<"\\u04A8", "\\u04A9">>, <<"\\u04AA", "\\u04AB">>,
     <<"\\u04AC", "\\u04AD">>, <<"\\u04AE", "\\u04AF">>, <<"\\u04B0", "\\u04B1">>,
     <<"\\u04B2", "\\u04B3">>, <<"\\u04B4", "\\u04B5">>, <<"\\u04B6", "\\u04B7">>,
     <<"\\u04B8", "\\u04B9">>, <<"\\u04BA", "\\u04BB">>, <<"\\u04BC", "\\u04BD">>,
     <<"\\u04BE", "\\u04BF">>, <<"\\u04C0", "\\u04CF">>, <<"\\u04C1", "\\u04C2">>,
     <<"\\u04C3", "\\u04C4">>, <<"\\u04C5", "\\u04C6">>, <<"\\u04C7", "\\u04C8">>,
     <<"\\u04C9", "\\u04CA">>, <<"\\u04CB", "\\u04CC">>, <<"\\u04CD", "\\u04CE">>,
     <<"\\u04D0", "\\u04D1">>, <<"\\u04D2", "\\u04D3">>, <<"\\u04D4", "\\u04D5">>,
     <<"\\u04D6", "\\u04D7">>, <<"\\u04D8", "\\u04D9">>, <<"\\u04DA", "\\u04DB">>,
     <<"\\u04DC", "\\u04DD">>, <<"\\u04DE", "\\u04DF">>, <<"\\u04E0", "\\u04E1">>,
     <<"\\u04E2", "\\u04E3">>, <<"\\u04E4", "\\u04E5">>, <<"\\u04E6", "\\u04E7">>,
     <<"\\u04E8", "\\u04E9">>, <<"\\u04EA", "\\u04EB">>, <<"\\u04EC", "\\u04ED">>,
     <<"\\u04EE", "\\u04EF">>, <<"\\u04F0", "\\u04F1">>, <<"\\u04F2", "\\u04F3">>,
     <<"\\u04F4", "\\u04F5">>, <<"\\u04F6", "\\u04F7">>, <<"\\u04F8", "\\u04F9">>,
     <<"\\u04FA", "\\u04FB">>, <<"\\u04FC", "\\u04FD">>, <<"\\u04FE", "\\u04FF">>,
     <<"\\u0500", "\\u0501">>, <<"\\u0502", "\\u0503">>, <<"\\u0504", "\\u0505">>,
     <<"\\u0506", "\\u0507">>, <<"\\u0508", "\\u0509">>, <<"\\u050A", "\\u050B">>,
     <<"\\u050C", "\\u050D">>, <<"\\u050E", "\\u050F">>, <<"\\u0510", "\\u0511">>,
     <<"\\u0512", "\\u0513">>, <<"\\u0514", "\\u0515">>, <<"\\u0516", "\\u0517">>,
     <<"\\u0518", "\\u0519">>, <<"\\u051A", "\\u051B">>, <<"\\u051C", "\\u051D">>,
     <<"\\u051E", "\\u051F">>, <<"\\u0520", "\\u0521">>, <<"\\u0522", "\\u0523">>,
     <<"\\u0524", "\\u0525">>, <<"\\u0526", "\\u0527">>, <<"\\u0528", "\\u0529">>,
     <<"\\u052A", "\\u052B">>, <<"\\u052C", "\\u052D">>, <<"\\u052E", "\\u052F">>,
     <<"\\u0531", "\\u0561">>, <<"\\u0532", "\\u0562">>, <<"\\u0533", "\\u0563">>,
     <<"\\u0534", "\\u0564">>, <<"\\u0535", "\\u0565">>, <<"\\u0536", "\\u0566">>,
     <<"\\u0537", "\\u0567">>, <<"\\u0538", "\\u0568">>, <<"\\u0539", "\\u0569">>,
     <<"\\u053A", "\\u056A">>, <<"\\u053B", "\\u056B">>, <<"\\u053C", "\\u056C">>,
     <<"\\u053D", "\\u056D">>, <<"\\u053E", "\\u056E">>, <<"\\u053F", "\\u056F">>,
     <<"\\u0540", "\\u0570">>, <<"\\u0541", "\\u0571">>, <<"\\u0542", "\\u0572">>,
     <<"\\u0543", "\\u0573">>, <<"\\u0544", "\\u0574">>, <<"\\u0545", "\\u0575">>,
     <<"\\u0546", "\\u0576">>, <<"\\u0547", "\\u0577">>, <<"\\u0548", "\\u0578">>,
     <<"\\u0549", "\\u0579">>, <<"\\u054A", "\\u057A">>, <<"\\u054B", "\\u057B">>,
     <<"\\u054C", "\\u057C">>, <<"\\u054D", "\\u057D">>, <<"\\u054E", "\\u057E">>,
     <<"\\u054F", "\\u057F">>, <<"\\u0550", "\\u0580">>, <<"\\u0551", "\\u0581">>,
     <<"\\u0552", "\\u0582">>, <<"\\u0553", "\\u0583">>, <<"\\u0554", "\\u0584">>,
     <<"\\u0555", "\\u0585">>, <<"\\u0556", "\\u0586">>, <<"\\u10A0", "\\u2D00">>,
     <<"\\u10A1", "\\u2D01">>, <<"\\u10A2", "\\u2D02">>, <<"\\u10A3", "\\u2D03">>,
     <<"\\u10A4", "\\u2D04">>, <<"\\u10A5", "\\u2D05">>, <<"\\u10A6", "\\u2D06">>,
     <<"\\u10A7", "\\u2D07">>, <<"\\u10A8", "\\u2D08">>, <<"\\u10A9", "\\u2D09">>,
     <<"\\u10AA", "\\u2D0A">>, <<"\\u10AB", "\\u2D0B">>, <<"\\u10AC", "\\u2D0C">>,
     <<"\\u10AD", "\\u2D0D">>, <<"\\u10AE", "\\u2D0E">>, <<"\\u10AF", "\\u2D0F">>,
     <<"\\u10B0", "\\u2D10">>, <<"\\u10B1", "\\u2D11">>, <<"\\u10B2", "\\u2D12">>,
     <<"\\u10B3", "\\u2D13">>, <<"\\u10B4", "\\u2D14">>, <<"\\u10B5", "\\u2D15">>,
     <<"\\u10B6", "\\u2D16">>, <<"\\u10B7", "\\u2D17">>, <<"\\u10B8", "\\u2D18">>,
     <<"\\u10B9", "\\u2D19">>, <<"\\u10BA", "\\u2D1A">>, <<"\\u10BB", "\\u2D1B">>,
     <<"\\u10BC", "\\u2D1C">>, <<"\\u10BD", "\\u2D1D">>, <<"\\u10BE", "\\u2D1E">>,
     <<"\\u10BF", "\\u2D1F">>, <<"\\u10C0", "\\u2D20">>, <<"\\u10C1", "\\u2D21">>,
     <<"\\u10C2", "\\u2D22">>, <<"\\u10C3", "\\u2D23">>, <<"\\u10C4", "\\u2D24">>,
     <<"\\u10C5", "\\u2D25">>, <<"\\u10C7", "\\u2D27">>, <<"\\u10CD", "\\u2D2D">>,
     <<"\\u13A0", "\\uAB70">>, <<"\\u13A1", "\\uAB71">>, <<"\\u13A2", "\\uAB72">>,
     <<"\\u13A3", "\\uAB73">>, <<"\\u13A4", "\\uAB74">>, <<"\\u13A5", "\\uAB75">>,
     <<"\\u13A6", "\\uAB76">>, <<"\\u13A7", "\\uAB77">>, <<"\\u13A8", "\\uAB78">>,
     <<"\\u13A9", "\\uAB79">>, <<"\\u13AA", "\\uAB7A">>, <<"\\u13AB", "\\uAB7B">>,
     <<"\\u13AC", "\\uAB7C">>, <<"\\u13AD", "\\uAB7D">>, <<"\\u13AE", "\\uAB7E">>,
     <<"\\u13AF", "\\uAB7F">>, <<"\\u13B0", "\\uAB80">>, <<"\\u13B1", "\\uAB81">>,
     <<"\\u13B2", "\\uAB82">>, <<"\\u13B3", "\\uAB83">>, <<"\\u13B4", "\\uAB84">>,
     <<"\\u13B5", "\\uAB85">>, <<"\\u13B6", "\\uAB86">>, <<"\\u13B7", "\\uAB87">>,
     <<"\\u13B8", "\\uAB88">>, <<"\\u13B9", "\\uAB89">>, <<"\\u13BA", "\\uAB8A">>,
     <<"\\u13BB", "\\uAB8B">>, <<"\\u13BC", "\\uAB8C">>, <<"\\u13BD", "\\uAB8D">>,
     <<"\\u13BE", "\\uAB8E">>, <<"\\u13BF", "\\uAB8F">>, <<"\\u13C0", "\\uAB90">>,
     <<"\\u13C1", "\\uAB91">>, <<"\\u13C2", "\\uAB92">>, <<"\\u13C3", "\\uAB93">>,
     <<"\\u13C4", "\\uAB94">>, <<"\\u13C5", "\\uAB95">>, <<"\\u13C6", "\\uAB96">>,
     <<"\\u13C7", "\\uAB97">>, <<"\\u13C8", "\\uAB98">>, <<"\\u13C9", "\\uAB99">>,
     <<"\\u13CA", "\\uAB9A">>, <<"\\u13CB", "\\uAB9B">>, <<"\\u13CC", "\\uAB9C">>,
     <<"\\u13CD", "\\uAB9D">>, <<"\\u13CE", "\\uAB9E">>, <<"\\u13CF", "\\uAB9F">>,
     <<"\\u13D0", "\\uABA0">>, <<"\\u13D1", "\\uABA1">>, <<"\\u13D2", "\\uABA2">>,
     <<"\\u13D3", "\\uABA3">>, <<"\\u13D4", "\\uABA4">>, <<"\\u13D5", "\\uABA5">>,
     <<"\\u13D6", "\\uABA6">>, <<"\\u13D7", "\\uABA7">>, <<"\\u13D8", "\\uABA8">>,
     <<"\\u13D9", "\\uABA9">>, <<"\\u13DA", "\\uABAA">>, <<"\\u13DB", "\\uABAB">>,
     <<"\\u13DC", "\\uABAC">>, <<"\\u13DD", "\\uABAD">>, <<"\\u13DE", "\\uABAE">>,
     <<"\\u13DF", "\\uABAF">>, <<"\\u13E0", "\\uABB0">>, <<"\\u13E1", "\\uABB1">>,
     <<"\\u13E2", "\\uABB2">>, <<"\\u13E3", "\\uABB3">>, <<"\\u13E4", "\\uABB4">>,
     <<"\\u13E5", "\\uABB5">>, <<"\\u13E6", "\\uABB6">>, <<"\\u13E7", "\\uABB7">>,
     <<"\\u13E8", "\\uABB8">>, <<"\\u13E9", "\\uABB9">>, <<"\\u13EA", "\\uABBA">>,
     <<"\\u13EB", "\\uABBB">>, <<"\\u13EC", "\\uABBC">>, <<"\\u13ED", "\\uABBD">>,
     <<"\\u13EE", "\\uABBE">>, <<"\\u13EF", "\\uABBF">>, <<"\\u13F0", "\\u13F8">>,
     <<"\\u13F1", "\\u13F9">>, <<"\\u13F2", "\\u13FA">>, <<"\\u13F3", "\\u13FB">>,
     <<"\\u13F4", "\\u13FC">>, <<"\\u13F5", "\\u13FD">>, <<"\\u1C90", "\\u10D0">>,
     <<"\\u1C91", "\\u10D1">>, <<"\\u1C92", "\\u10D2">>, <<"\\u1C93", "\\u10D3">>,
     <<"\\u1C94", "\\u10D4">>, <<"\\u1C95", "\\u10D5">>, <<"\\u1C96", "\\u10D6">>,
     <<"\\u1C97", "\\u10D7">>, <<"\\u1C98", "\\u10D8">>, <<"\\u1C99", "\\u10D9">>,
     <<"\\u1C9A", "\\u10DA">>, <<"\\u1C9B", "\\u10DB">>, <<"\\u1C9C", "\\u10DC">>,
     <<"\\u1C9D", "\\u10DD">>, <<"\\u1C9E", "\\u10DE">>, <<"\\u1C9F", "\\u10DF">>,
     <<"\\u1CA0", "\\u10E0">>, <<"\\u1CA1", "\\u10E1">>, <<"\\u1CA2", "\\u10E2">>,
     <<"\\u1CA3", "\\u10E3">>, <<"\\u1CA4", "\\u10E4">>, <<"\\u1CA5", "\\u10E5">>,
     <<"\\u1CA6", "\\u10E6">>, <<"\\u1CA7", "\\u10E7">>, <<"\\u1CA8", "\\u10E8">>,
     <<"\\u1CA9", "\\u10E9">>, <<"\\u1CAA", "\\u10EA">>, <<"\\u1CAB", "\\u10EB">>,
     <<"\\u1CAC", "\\u10EC">>, <<"\\u1CAD", "\\u10ED">>, <<"\\u1CAE", "\\u10EE">>,
     <<"\\u1CAF", "\\u10EF">>, <<"\\u1CB0", "\\u10F0">>, <<"\\u1CB1", "\\u10F1">>,
     <<"\\u1CB2", "\\u10F2">>, <<"\\u1CB3", "\\u10F3">>, <<"\\u1CB4", "\\u10F4">>,
     <<"\\u1CB5", "\\u10F5">>, <<"\\u1CB6", "\\u10F6">>, <<"\\u1CB7", "\\u10F7">>,
     <<"\\u1CB8", "\\u10F8">>, <<"\\u1CB9", "\\u10F9">>, <<"\\u1CBA", "\\u10FA">>,
     <<"\\u1CBD", "\\u10FD">>, <<"\\u1CBE", "\\u10FE">>, <<"\\u1CBF", "\\u10FF">>,
     <<"\\u1E00", "\\u1E01">>, <<"\\u1E02", "\\u1E03">>, <<"\\u1E04", "\\u1E05">>,
     <<"\\u1E06", "\\u1E07">>, <<"\\u1E08", "\\u1E09">>, <<"\\u1E0A", "\\u1E0B">>,
     <<"\\u1E0C", "\\u1E0D">>, <<"\\u1E0E", "\\u1E0F">>, <<"\\u1E10", "\\u1E11">>,
     <<"\\u1E12", "\\u1E13">>, <<"\\u1E14", "\\u1E15">>, <<"\\u1E16", "\\u1E17">>,
     <<"\\u1E18", "\\u1E19">>, <<"\\u1E1A", "\\u1E1B">>, <<"\\u1E1C", "\\u1E1D">>,
     <<"\\u1E1E", "\\u1E1F">>, <<"\\u1E20", "\\u1E21">>, <<"\\u1E22", "\\u1E23">>,
     <<"\\u1E24", "\\u1E25">>, <<"\\u1E26", "\\u1E27">>, <<"\\u1E28", "\\u1E29">>,
     <<"\\u1E2A", "\\u1E2B">>, <<"\\u1E2C", "\\u1E2D">>, <<"\\u1E2E", "\\u1E2F">>,
     <<"\\u1E30", "\\u1E31">>, <<"\\u1E32", "\\u1E33">>, <<"\\u1E34", "\\u1E35">>,
     <<"\\u1E36", "\\u1E37">>, <<"\\u1E38", "\\u1E39">>, <<"\\u1E3A", "\\u1E3B">>,
     <<"\\u1E3C", "\\u1E3D">>, <<"\\u1E3E", "\\u1E3F">>, <<"\\u1E40", "\\u1E41">>,
     <<"\\u1E42", "\\u1E43">>, <<"\\u1E44", "\\u1E45">>, <<"\\u1E46", "\\u1E47">>,
     <<"\\u1E48", "\\u1E49">>, <<"\\u1E4A", "\\u1E4B">>, <<"\\u1E4C", "\\u1E4D">>,
     <<"\\u1E4E", "\\u1E4F">>, <<"\\u1E50", "\\u1E51">>, <<"\\u1E52", "\\u1E53">>,
     <<"\\u1E54", "\\u1E55">>, <<"\\u1E56", "\\u1E57">>, <<"\\u1E58", "\\u1E59">>,
     <<"\\u1E5A", "\\u1E5B">>, <<"\\u1E5C", "\\u1E5D">>, <<"\\u1E5E", "\\u1E5F">>,
     <<"\\u1E60", "\\u1E61">>, <<"\\u1E62", "\\u1E63">>, <<"\\u1E64", "\\u1E65">>,
     <<"\\u1E66", "\\u1E67">>, <<"\\u1E68", "\\u1E69">>, <<"\\u1E6A", "\\u1E6B">>,
     <<"\\u1E6C", "\\u1E6D">>, <<"\\u1E6E", "\\u1E6F">>, <<"\\u1E70", "\\u1E71">>,
     <<"\\u1E72", "\\u1E73">>, <<"\\u1E74", "\\u1E75">>, <<"\\u1E76", "\\u1E77">>,
     <<"\\u1E78", "\\u1E79">>, <<"\\u1E7A", "\\u1E7B">>, <<"\\u1E7C", "\\u1E7D">>,
     <<"\\u1E7E", "\\u1E7F">>, <<"\\u1E80", "\\u1E81">>, <<"\\u1E82", "\\u1E83">>,
     <<"\\u1E84", "\\u1E85">>, <<"\\u1E86", "\\u1E87">>, <<"\\u1E88", "\\u1E89">>,
     <<"\\u1E8A", "\\u1E8B">>, <<"\\u1E8C", "\\u1E8D">>, <<"\\u1E8E", "\\u1E8F">>,
     <<"\\u1E90", "\\u1E91">>, <<"\\u1E92", "\\u1E93">>, <<"\\u1E94", "\\u1E95">>,
     <<"\\u1E9E", "\\u00DF">>, <<"\\u1EA0", "\\u1EA1">>, <<"\\u1EA2", "\\u1EA3">>,
     <<"\\u1EA4", "\\u1EA5">>, <<"\\u1EA6", "\\u1EA7">>, <<"\\u1EA8", "\\u1EA9">>,
     <<"\\u1EAA", "\\u1EAB">>, <<"\\u1EAC", "\\u1EAD">>, <<"\\u1EAE", "\\u1EAF">>,
     <<"\\u1EB0", "\\u1EB1">>, <<"\\u1EB2", "\\u1EB3">>, <<"\\u1EB4", "\\u1EB5">>,
     <<"\\u1EB6", "\\u1EB7">>, <<"\\u1EB8", "\\u1EB9">>, <<"\\u1EBA", "\\u1EBB">>,
     <<"\\u1EBC", "\\u1EBD">>, <<"\\u1EBE", "\\u1EBF">>, <<"\\u1EC0", "\\u1EC1">>,
     <<"\\u1EC2", "\\u1EC3">>, <<"\\u1EC4", "\\u1EC5">>, <<"\\u1EC6", "\\u1EC7">>,
     <<"\\u1EC8", "\\u1EC9">>, <<"\\u1ECA", "\\u1ECB">>, <<"\\u1ECC", "\\u1ECD">>,
     <<"\\u1ECE", "\\u1ECF">>, <<"\\u1ED0", "\\u1ED1">>, <<"\\u1ED2", "\\u1ED3">>,
     <<"\\u1ED4", "\\u1ED5">>, <<"\\u1ED6", "\\u1ED7">>, <<"\\u1ED8", "\\u1ED9">>,
     <<"\\u1EDA", "\\u1EDB">>, <<"\\u1EDC", "\\u1EDD">>, <<"\\u1EDE", "\\u1EDF">>,
     <<"\\u1EE0", "\\u1EE1">>, <<"\\u1EE2", "\\u1EE3">>, <<"\\u1EE4", "\\u1EE5">>,
     <<"\\u1EE6", "\\u1EE7">>, <<"\\u1EE8", "\\u1EE9">>, <<"\\u1EEA", "\\u1EEB">>,
     <<"\\u1EEC", "\\u1EED">>, <<"\\u1EEE", "\\u1EEF">>, <<"\\u1EF0", "\\u1EF1">>,
     <<"\\u1EF2", "\\u1EF3">>, <<"\\u1EF4", "\\u1EF5">>, <<"\\u1EF6", "\\u1EF7">>,
     <<"\\u1EF8", "\\u1EF9">>, <<"\\u1EFA", "\\u1EFB">>, <<"\\u1EFC", "\\u1EFD">>,
     <<"\\u1EFE", "\\u1EFF">>, <<"\\u1F08", "\\u1F00">>, <<"\\u1F09", "\\u1F01">>,
     <<"\\u1F0A", "\\u1F02">>, <<"\\u1F0B", "\\u1F03">>, <<"\\u1F0C", "\\u1F04">>,
     <<"\\u1F0D", "\\u1F05">>, <<"\\u1F0E", "\\u1F06">>, <<"\\u1F0F", "\\u1F07">>,
     <<"\\u1F18", "\\u1F10">>, <<"\\u1F19", "\\u1F11">>, <<"\\u1F1A", "\\u1F12">>,
     <<"\\u1F1B", "\\u1F13">>, <<"\\u1F1C", "\\u1F14">>, <<"\\u1F1D", "\\u1F15">>,
     <<"\\u1F28", "\\u1F20">>, <<"\\u1F29", "\\u1F21">>, <<"\\u1F2A", "\\u1F22">>,
     <<"\\u1F2B", "\\u1F23">>, <<"\\u1F2C", "\\u1F24">>, <<"\\u1F2D", "\\u1F25">>,
     <<"\\u1F2E", "\\u1F26">>, <<"\\u1F2F", "\\u1F27">>, <<"\\u1F38", "\\u1F30">>,
     <<"\\u1F39", "\\u1F31">>, <<"\\u1F3A", "\\u1F32">>, <<"\\u1F3B", "\\u1F33">>,
     <<"\\u1F3C", "\\u1F34">>, <<"\\u1F3D", "\\u1F35">>, <<"\\u1F3E", "\\u1F36">>,
     <<"\\u1F3F", "\\u1F37">>, <<"\\u1F48", "\\u1F40">>, <<"\\u1F49", "\\u1F41">>,
     <<"\\u1F4A", "\\u1F42">>, <<"\\u1F4B", "\\u1F43">>, <<"\\u1F4C", "\\u1F44">>,
     <<"\\u1F4D", "\\u1F45">>, <<"\\u1F59", "\\u1F51">>, <<"\\u1F5B", "\\u1F53">>,
     <<"\\u1F5D", "\\u1F55">>, <<"\\u1F5F", "\\u1F57">>, <<"\\u1F68", "\\u1F60">>,
     <<"\\u1F69", "\\u1F61">>, <<"\\u1F6A", "\\u1F62">>, <<"\\u1F6B", "\\u1F63">>,
     <<"\\u1F6C", "\\u1F64">>, <<"\\u1F6D", "\\u1F65">>, <<"\\u1F6E", "\\u1F66">>,
     <<"\\u1F6F", "\\u1F67">>, <<"\\u1F88", "\\u1F80">>, <<"\\u1F89", "\\u1F81">>,
     <<"\\u1F8A", "\\u1F82">>, <<"\\u1F8B", "\\u1F83">>, <<"\\u1F8C", "\\u1F84">>,
     <<"\\u1F8D", "\\u1F85">>, <<"\\u1F8E", "\\u1F86">>, <<"\\u1F8F", "\\u1F87">>,
     <<"\\u1F98", "\\u1F90">>, <<"\\u1F99", "\\u1F91">>, <<"\\u1F9A", "\\u1F92">>,
     <<"\\u1F9B", "\\u1F93">>, <<"\\u1F9C", "\\u1F94">>, <<"\\u1F9D", "\\u1F95">>,
     <<"\\u1F9E", "\\u1F96">>, <<"\\u1F9F", "\\u1F97">>, <<"\\u1FA8", "\\u1FA0">>,
     <<"\\u1FA9", "\\u1FA1">>, <<"\\u1FAA", "\\u1FA2">>, <<"\\u1FAB", "\\u1FA3">>,
     <<"\\u1FAC", "\\u1FA4">>, <<"\\u1FAD", "\\u1FA5">>, <<"\\u1FAE", "\\u1FA6">>,
     <<"\\u1FAF", "\\u1FA7">>, <<"\\u1FB8", "\\u1FB0">>, <<"\\u1FB9", "\\u1FB1">>,
     <<"\\u1FBA", "\\u1F70">>, <<"\\u1FBB", "\\u1F71">>, <<"\\u1FBC", "\\u1FB3">>,
     <<"\\u1FC8", "\\u1F72">>, <<"\\u1FC9", "\\u1F73">>, <<"\\u1FCA", "\\u1F74">>,
     <<"\\u1FCB", "\\u1F75">>, <<"\\u1FCC", "\\u1FC3">>, <<"\\u1FD8", "\\u1FD0">>,
     <<"\\u1FD9", "\\u1FD1">>, <<"\\u1FDA", "\\u1F76">>, <<"\\u1FDB", "\\u1F77">>,
     <<"\\u1FE8", "\\u1FE0">>, <<"\\u1FE9", "\\u1FE1">>, <<"\\u1FEA", "\\u1F7A">>,
     <<"\\u1FEB", "\\u1F7B">>, <<"\\u1FEC", "\\u1FE5">>, <<"\\u1FF8", "\\u1F78">>,
     <<"\\u1FF9", "\\u1F79">>, <<"\\u1FFA", "\\u1F7C">>, <<"\\u1FFB", "\\u1F7D">>,
     <<"\\u1FFC", "\\u1FF3">>, <<"\\u2126", "\\u03C9">>, <<"\\u212A", "k">>,
     <<"\\u212B", "\\u00E5">>, <<"\\u2132", "\\u214E">>, <<"\\u2160", "\\u2170">>,
     <<"\\u2161", "\\u2171">>, <<"\\u2162", "\\u2172">>, <<"\\u2163", "\\u2173">>,
     <<"\\u2164", "\\u2174">>, <<"\\u2165", "\\u2175">>, <<"\\u2166", "\\u2176">>,
     <<"\\u2167", "\\u2177">>, <<"\\u2168", "\\u2178">>, <<"\\u2169", "\\u2179">>,
     <<"\\u216A", "\\u217A">>, <<"\\u216B", "\\u217B">>, <<"\\u216C", "\\u217C">>,
     <<"\\u216D", "\\u217D">>, <<"\\u216E", "\\u217E">>, <<"\\u216F", "\\u217F">>,
     <<"\\u2183", "\\u2184">>, <<"\\u24B6", "\\u24D0">>, <<"\\u24B7", "\\u24D1">>,
     <<"\\u24B8", "\\u24D2">>, <<"\\u24B9", "\\u24D3">>, <<"\\u24BA", "\\u24D4">>,
     <<"\\u24BB", "\\u24D5">>, <<"\\u24BC", "\\u24D6">>, <<"\\u24BD", "\\u24D7">>,
     <<"\\u24BE", "\\u24D8">>, <<"\\u24BF", "\\u24D9">>, <<"\\u24C0", "\\u24DA">>,
     <<"\\u24C1", "\\u24DB">>, <<"\\u24C2", "\\u24DC">>, <<"\\u24C3", "\\u24DD">>,
     <<"\\u24C4", "\\u24DE">>, <<"\\u24C5", "\\u24DF">>, <<"\\u24C6", "\\u24E0">>,
     <<"\\u24C7", "\\u24E1">>, <<"\\u24C8", "\\u24E2">>, <<"\\u24C9", "\\u24E3">>,
     <<"\\u24CA", "\\u24E4">>, <<"\\u24CB", "\\u24E5">>, <<"\\u24CC", "\\u24E6">>,
     <<"\\u24CD", "\\u24E7">>, <<"\\u24CE", "\\u24E8">>, <<"\\u24CF", "\\u24E9">>,
     <<"\\u2C00", "\\u2C30">>, <<"\\u2C01", "\\u2C31">>, <<"\\u2C02", "\\u2C32">>,
     <<"\\u2C03", "\\u2C33">>, <<"\\u2C04", "\\u2C34">>, <<"\\u2C05", "\\u2C35">>,
     <<"\\u2C06", "\\u2C36">>, <<"\\u2C07", "\\u2C37">>, <<"\\u2C08", "\\u2C38">>,
     <<"\\u2C09", "\\u2C39">>, <<"\\u2C0A", "\\u2C3A">>, <<"\\u2C0B", "\\u2C3B">>,
     <<"\\u2C0C", "\\u2C3C">>, <<"\\u2C0D", "\\u2C3D">>, <<"\\u2C0E", "\\u2C3E">>,
     <<"\\u2C0F", "\\u2C3F">>, <<"\\u2C10", "\\u2C40">>, <<"\\u2C11", "\\u2C41">>,
     <<"\\u2C12", "\\u2C42">>, <<"\\u2C13", "\\u2C43">>, <<"\\u2C14", "\\u2C44">>,
     <<"\\u2C15", "\\u2C45">>, <<"\\u2C16", "\\u2C46">>, <<"\\u2C17", "\\u2C47">>,
     <<"\\u2C18", "\\u2C48">>, <<"\\u2C19", "\\u2C49">>, <<"\\u2C1A", "\\u2C4A">>,
     <<"\\u2C1B", "\\u2C4B">>, <<"\\u2C1C", "\\u2C4C">>, <<"\\u2C1D", "\\u2C4D">>,
     <<"\\u2C1E", "\\u2C4E">>, <<"\\u2C1F", "\\u2C4F">>, <<"\\u2C20", "\\u2C50">>,
     <<"\\u2C21", "\\u2C51">>, <<"\\u2C22", "\\u2C52">>, <<"\\u2C23", "\\u2C53">>,
     <<"\\u2C24", "\\u2C54">>, <<"\\u2C25", "\\u2C55">>, <<"\\u2C26", "\\u2C56">>,
     <<"\\u2C27", "\\u2C57">>, <<"\\u2C28", "\\u2C58">>, <<"\\u2C29", "\\u2C59">>,
     <<"\\u2C2A", "\\u2C5A">>, <<"\\u2C2B", "\\u2C5B">>, <<"\\u2C2C", "\\u2C5C">>,
     <<"\\u2C2D", "\\u2C5D">>, <<"\\u2C2E", "\\u2C5E">>, <<"\\u2C2F", "\\u2C5F">>,
     <<"\\u2C60", "\\u2C61">>, <<"\\u2C62", "\\u026B">>, <<"\\u2C63", "\\u1D7D">>,
     <<"\\u2C64", "\\u027D">>, <<"\\u2C67", "\\u2C68">>, <<"\\u2C69", "\\u2C6A">>,
     <<"\\u2C6B", "\\u2C6C">>, <<"\\u2C6D", "\\u0251">>, <<"\\u2C6E", "\\u0271">>,
     <<"\\u2C6F", "\\u0250">>, <<"\\u2C70", "\\u0252">>, <<"\\u2C72", "\\u2C73">>,
     <<"\\u2C75", "\\u2C76">>, <<"\\u2C7E", "\\u023F">>, <<"\\u2C7F", "\\u0240">>,
     <<"\\u2C80", "\\u2C81">>, <<"\\u2C82", "\\u2C83">>, <<"\\u2C84", "\\u2C85">>,
     <<"\\u2C86", "\\u2C87">>, <<"\\u2C88", "\\u2C89">>, <<"\\u2C8A", "\\u2C8B">>,
     <<"\\u2C8C", "\\u2C8D">>, <<"\\u2C8E", "\\u2C8F">>, <<"\\u2C90", "\\u2C91">>,
     <<"\\u2C92", "\\u2C93">>, <<"\\u2C94", "\\u2C95">>, <<"\\u2C96", "\\u2C97">>,
     <<"\\u2C98", "\\u2C99">>, <<"\\u2C9A", "\\u2C9B">>, <<"\\u2C9C", "\\u2C9D">>,
     <<"\\u2C9E", "\\u2C9F">>, <<"\\u2CA0", "\\u2CA1">>, <<"\\u2CA2", "\\u2CA3">>,
     <<"\\u2CA4", "\\u2CA5">>, <<"\\u2CA6", "\\u2CA7">>, <<"\\u2CA8", "\\u2CA9">>,
     <<"\\u2CAA", "\\u2CAB">>, <<"\\u2CAC", "\\u2CAD">>, <<"\\u2CAE", "\\u2CAF">>,
     <<"\\u2CB0", "\\u2CB1">>, <<"\\u2CB2", "\\u2CB3">>, <<"\\u2CB4", "\\u2CB5">>,
     <<"\\u2CB6", "\\u2CB7">>, <<"\\u2CB8", "\\u2CB9">>, <<"\\u2CBA", "\\u2CBB">>,
     <<"\\u2CBC", "\\u2CBD">>, <<"\\u2CBE", "\\u2CBF">>, <<"\\u2CC0", "\\u2CC1">>,
     <<"\\u2CC2", "\\u2CC3">>, <<"\\u2CC4", "\\u2CC5">>, <<"\\u2CC6", "\\u2CC7">>,
     <<"\\u2CC8", "\\u2CC9">>, <<"\\u2CCA", "\\u2CCB">>, <<"\\u2CCC", "\\u2CCD">>,
     <<"\\u2CCE", "\\u2CCF">>, <<"\\u2CD0", "\\u2CD1">>, <<"\\u2CD2", "\\u2CD3">>,
     <<"\\u2CD4", "\\u2CD5">>, <<"\\u2CD6", "\\u2CD7">>, <<"\\u2CD8", "\\u2CD9">>,
     <<"\\u2CDA", "\\u2CDB">>, <<"\\u2CDC", "\\u2CDD">>, <<"\\u2CDE", "\\u2CDF">>,
     <<"\\u2CE0", "\\u2CE1">>, <<"\\u2CE2", "\\u2CE3">>, <<"\\u2CEB", "\\u2CEC">>,
     <<"\\u2CED", "\\u2CEE">>, <<"\\u2CF2", "\\u2CF3">>, <<"\\uA640", "\\uA641">>,
     <<"\\uA642", "\\uA643">>, <<"\\uA644", "\\uA645">>, <<"\\uA646", "\\uA647">>,
     <<"\\uA648", "\\uA649">>, <<"\\uA64A", "\\uA64B">>, <<"\\uA64C", "\\uA64D">>,
     <<"\\uA64E", "\\uA64F">>, <<"\\uA650", "\\uA651">>, <<"\\uA652", "\\uA653">>,
     <<"\\uA654", "\\uA655">>, <<"\\uA656", "\\uA657">>, <<"\\uA658", "\\uA659">>,
     <<"\\uA65A", "\\uA65B">>, <<"\\uA65C", "\\uA65D">>, <<"\\uA65E", "\\uA65F">>,
     <<"\\uA660", "\\uA661">>, <<"\\uA662", "\\uA663">>, <<"\\uA664", "\\uA665">>,
     <<"\\uA666", "\\uA667">>, <<"\\uA668", "\\uA669">>, <<"\\uA66A", "\\uA66B">>,
     <<"\\uA66C", "\\uA66D">>, <<"\\uA680", "\\uA681">>, <<"\\uA682", "\\uA683">>,
     <<"\\uA684", "\\uA685">>, <<"\\uA686", "\\uA687">>, <<"\\uA688", "\\uA689">>,
     <<"\\uA68A", "\\uA68B">>, <<"\\uA68C", "\\uA68D">>, <<"\\uA68E", "\\uA68F">>,
     <<"\\uA690", "\\uA691">>, <<"\\uA692", "\\uA693">>, <<"\\uA694", "\\uA695">>,
     <<"\\uA696", "\\uA697">>, <<"\\uA698", "\\uA699">>, <<"\\uA69A", "\\uA69B">>,
     <<"\\uA722", "\\uA723">>, <<"\\uA724", "\\uA725">>, <<"\\uA726", "\\uA727">>,
     <<"\\uA728", "\\uA729">>, <<"\\uA72A", "\\uA72B">>, <<"\\uA72C", "\\uA72D">>,
     <<"\\uA72E", "\\uA72F">>, <<"\\uA732", "\\uA733">>, <<"\\uA734", "\\uA735">>,
     <<"\\uA736", "\\uA737">>, <<"\\uA738", "\\uA739">>, <<"\\uA73A", "\\uA73B">>,
     <<"\\uA73C", "\\uA73D">>, <<"\\uA73E", "\\uA73F">>, <<"\\uA740", "\\uA741">>,
     <<"\\uA742", "\\uA743">>, <<"\\uA744", "\\uA745">>, <<"\\uA746", "\\uA747">>,
     <<"\\uA748", "\\uA749">>, <<"\\uA74A", "\\uA74B">>, <<"\\uA74C", "\\uA74D">>,
     <<"\\uA74E", "\\uA74F">>, <<"\\uA750", "\\uA751">>, <<"\\uA752", "\\uA753">>,
     <<"\\uA754", "\\uA755">>, <<"\\uA756", "\\uA757">>, <<"\\uA758", "\\uA759">>,
     <<"\\uA75A", "\\uA75B">>, <<"\\uA75C", "\\uA75D">>, <<"\\uA75E", "\\uA75F">>,
     <<"\\uA760", "\\uA761">>, <<"\\uA762", "\\uA763">>, <<"\\uA764", "\\uA765">>,
     <<"\\uA766", "\\uA767">>, <<"\\uA768", "\\uA769">>, <<"\\uA76A", "\\uA76B">>,
     <<"\\uA76C", "\\uA76D">>, <<"\\uA76E", "\\uA76F">>, <<"\\uA779", "\\uA77A">>,
     <<"\\uA77B", "\\uA77C">>, <<"\\uA77D", "\\u1D79">>, <<"\\uA77E", "\\uA77F">>,
     <<"\\uA780", "\\uA781">>, <<"\\uA782", "\\uA783">>, <<"\\uA784", "\\uA785">>,
     <<"\\uA786", "\\uA787">>, <<"\\uA78B", "\\uA78C">>, <<"\\uA78D", "\\u0265">>,
     <<"\\uA790", "\\uA791">>, <<"\\uA792", "\\uA793">>, <<"\\uA796", "\\uA797">>,
     <<"\\uA798", "\\uA799">>, <<"\\uA79A", "\\uA79B">>, <<"\\uA79C", "\\uA79D">>,
     <<"\\uA79E", "\\uA79F">>, <<"\\uA7A0", "\\uA7A1">>, <<"\\uA7A2", "\\uA7A3">>,
     <<"\\uA7A4", "\\uA7A5">>, <<"\\uA7A6", "\\uA7A7">>, <<"\\uA7A8", "\\uA7A9">>,
     <<"\\uA7AA", "\\u0266">>, <<"\\uA7AB", "\\u025C">>, <<"\\uA7AC", "\\u0261">>,
     <<"\\uA7AD", "\\u026C">>, <<"\\uA7AE", "\\u026A">>, <<"\\uA7B0", "\\u029E">>,
     <<"\\uA7B1", "\\u0287">>, <<"\\uA7B2", "\\u029D">>, <<"\\uA7B3", "\\uAB53">>,
     <<"\\uA7B4", "\\uA7B5">>, <<"\\uA7B6", "\\uA7B7">>, <<"\\uA7B8", "\\uA7B9">>,
     <<"\\uA7BA", "\\uA7BB">>, <<"\\uA7BC", "\\uA7BD">>, <<"\\uA7BE", "\\uA7BF">>,
     <<"\\uA7C0", "\\uA7C1">>, <<"\\uA7C2", "\\uA7C3">>, <<"\\uA7C4", "\\uA794">>,
     <<"\\uA7C5", "\\u0282">>, <<"\\uA7C6", "\\u1D8E">>, <<"\\uA7C7", "\\uA7C8">>,
     <<"\\uA7C9", "\\uA7CA">>, <<"\\uA7D0", "\\uA7D1">>, <<"\\uA7D6", "\\uA7D7">>,
     <<"\\uA7D8", "\\uA7D9">>, <<"\\uA7F5", "\\uA7F6">>, <<"\\uFF21", "\\uFF41">>,
     <<"\\uFF22", "\\uFF42">>, <<"\\uFF23", "\\uFF43">>, <<"\\uFF24", "\\uFF44">>,
     <<"\\uFF25", "\\uFF45">>, <<"\\uFF26", "\\uFF46">>, <<"\\uFF27", "\\uFF47">>,
     <<"\\uFF28", "\\uFF48">>, <<"\\uFF29", "\\uFF49">>, <<"\\uFF2A", "\\uFF4A">>,
     <<"\\uFF2B", "\\uFF4B">>, <<"\\uFF2C", "\\uFF4C">>, <<"\\uFF2D", "\\uFF4D">>,
     <<"\\uFF2E", "\\uFF4E">>, <<"\\uFF2F", "\\uFF4F">>, <<"\\uFF30", "\\uFF50">>,
     <<"\\uFF31", "\\uFF51">>, <<"\\uFF32", "\\uFF52">>, <<"\\uFF33", "\\uFF53">>,
     <<"\\uFF34", "\\uFF54">>, <<"\\uFF35", "\\uFF55">>, <<"\\uFF36", "\\uFF56">>,
     <<"\\uFF37", "\\uFF57">>, <<"\\uFF38", "\\uFF58">>, <<"\\uFF39", "\\uFF59">>,
     <<"\\uFF3A", "\\uFF5A">>, <<"\\U00010400", "\\U00010428">>, <<"\\U00010401", "\\U00010429">>,
     <<"\\U00010402", "\\U0001042A">>, <<"\\U00010403", "\\U0001042B">>, <<"\\U00010404", "\\U0001042C">>,
     <<"\\U00010405", "\\U0001042D">>, <<"\\U00010406", "\\U0001042E">>, <<"\\U00010407", "\\U0001042F">>,
     <<"\\U00010408", "\\U00010430">>, <<"\\U00010409", "\\U00010431">>, <<"\\U0001040A", "\\U00010432">>,
     <<"\\U0001040B", "\\U00010433">>, <<"\\U0001040C", "\\U00010434">>, <<"\\U0001040D", "\\U00010435">>,
     <<"\\U0001040E", "\\U00010436">>, <<"\\U0001040F", "\\U00010437">>, <<"\\U00010410", "\\U00010438">>,
     <<"\\U00010411", "\\U00010439">>, <<"\\U00010412", "\\U0001043A">>, <<"\\U00010413", "\\U0001043B">>,
     <<"\\U00010414", "\\U0001043C">>, <<"\\U00010415", "\\U0001043D">>, <<"\\U00010416", "\\U0001043E">>,
     <<"\\U00010417", "\\U0001043F">>, <<"\\U00010418", "\\U00010440">>, <<"\\U00010419", "\\U00010441">>,
     <<"\\U0001041A", "\\U00010442">>, <<"\\U0001041B", "\\U00010443">>, <<"\\U0001041C", "\\U00010444">>,
     <<"\\U0001041D", "\\U00010445">>, <<"\\U0001041E", "\\U00010446">>, <<"\\U0001041F", "\\U00010447">>,
     <<"\\U00010420", "\\U00010448">>, <<"\\U00010421", "\\U00010449">>, <<"\\U00010422", "\\U0001044A">>,
     <<"\\U00010423", "\\U0001044B">>, <<"\\U00010424", "\\U0001044C">>, <<"\\U00010425", "\\U0001044D">>,
     <<"\\U00010426", "\\U0001044E">>, <<"\\U00010427", "\\U0001044F">>, <<"\\U000104B0", "\\U000104D8">>,
     <<"\\U000104B1", "\\U000104D9">>, <<"\\U000104B2", "\\U000104DA">>, <<"\\U000104B3", "\\U000104DB">>,
     <<"\\U000104B4", "\\U000104DC">>, <<"\\U000104B5", "\\U000104DD">>, <<"\\U000104B6", "\\U000104DE">>,
     <<"\\U000104B7", "\\U000104DF">>, <<"\\U000104B8", "\\U000104E0">>, <<"\\U000104B9", "\\U000104E1">>,
     <<"\\U000104BA", "\\U000104E2">>, <<"\\U000104BB", "\\U000104E3">>, <<"\\U000104BC", "\\U000104E4">>,
     <<"\\U000104BD", "\\U000104E5">>, <<"\\U000104BE", "\\U000104E6">>, <<"\\U000104BF", "\\U000104E7">>,
     <<"\\U000104C0", "\\U000104E8">>, <<"\\U000104C1", "\\U000104E9">>, <<"\\U000104C2", "\\U000104EA">>,
     <<"\\U000104C3", "\\U000104EB">>, <<"\\U000104C4", "\\U000104EC">>, <<"\\U000104C5", "\\U000104ED">>,
     <<"\\U000104C6", "\\U000104EE">>, <<"\\U000104C7", "\\U000104EF">>, <<"\\U000104C8", "\\U000104F0">>,
     <<"\\U000104C9", "\\U000104F1">>, <<"\\U000104CA", "\\U000104F2">>, <<"\\U000104CB", "\\U000104F3">>,
     <<"\\U000104CC", "\\U000104F4">>, <<"\\U000104CD", "\\U000104F5">>, <<"\\U000104CE", "\\U000104F6">>,
     <<"\\U000104CF", "\\U000104F7">>, <<"\\U000104D0", "\\U000104F8">>, <<"\\U000104D1", "\\U000104F9">>,
     <<"\\U000104D2", "\\U000104FA">>, <<"\\U000104D3", "\\U000104FB">>, <<"\\U00010570", "\\U00010597">>,
     <<"\\U00010571", "\\U00010598">>, <<"\\U00010572", "\\U00010599">>, <<"\\U00010573", "\\U0001059A">>,
     <<"\\U00010574", "\\U0001059B">>, <<"\\U00010575", "\\U0001059C">>, <<"\\U00010576", "\\U0001059D">>,
     <<"\\U00010577", "\\U0001059E">>, <<"\\U00010578", "\\U0001059F">>, <<"\\U00010579", "\\U000105A0">>,
     <<"\\U0001057A", "\\U000105A1">>, <<"\\U0001057C", "\\U000105A3">>, <<"\\U0001057D", "\\U000105A4">>,
     <<"\\U0001057E", "\\U000105A5">>, <<"\\U0001057F", "\\U000105A6">>, <<"\\U00010580", "\\U000105A7">>,
     <<"\\U00010581", "\\U000105A8">>, <<"\\U00010582", "\\U000105A9">>, <<"\\U00010583", "\\U000105AA">>,
     <<"\\U00010584", "\\U000105AB">>, <<"\\U00010585", "\\U000105AC">>, <<"\\U00010586", "\\U000105AD">>,
     <<"\\U00010587", "\\U000105AE">>, <<"\\U00010588", "\\U000105AF">>, <<"\\U00010589", "\\U000105B0">>,
     <<"\\U0001058A", "\\U000105B1">>, <<"\\U0001058C", "\\U000105B3">>, <<"\\U0001058D", "\\U000105B4">>,
     <<"\\U0001058E", "\\U000105B5">>, <<"\\U0001058F", "\\U000105B6">>, <<"\\U00010590", "\\U000105B7">>,
     <<"\\U00010591", "\\U000105B8">>, <<"\\U00010592", "\\U000105B9">>, <<"\\U00010594", "\\U000105BB">>,
     <<"\\U00010595", "\\U000105BC">>, <<"\\U00010C80", "\\U00010CC0">>, <<"\\U00010C81", "\\U00010CC1">>,
     <<"\\U00010C82", "\\U00010CC2">>, <<"\\U00010C83", "\\U00010CC3">>, <<"\\U00010C84", "\\U00010CC4">>,
     <<"\\U00010C85", "\\U00010CC5">>, <<"\\U00010C86", "\\U00010CC6">>, <<"\\U00010C87", "\\U00010CC7">>,
     <<"\\U00010C88", "\\U00010CC8">>, <<"\\U00010C89", "\\U00010CC9">>, <<"\\U00010C8A", "\\U00010CCA">>,
     <<"\\U00010C8B", "\\U00010CCB">>, <<"\\U00010C8C", "\\U00010CCC">>, <<"\\U00010C8D", "\\U00010CCD">>,
     <<"\\U00010C8E", "\\U00010CCE">>, <<"\\U00010C8F", "\\U00010CCF">>, <<"\\U00010C90", "\\U00010CD0">>,
     <<"\\U00010C91", "\\U00010CD1">>, <<"\\U00010C92", "\\U00010CD2">>, <<"\\U00010C93", "\\U00010CD3">>,
     <<"\\U00010C94", "\\U00010CD4">>, <<"\\U00010C95", "\\U00010CD5">>, <<"\\U00010C96", "\\U00010CD6">>,
     <<"\\U00010C97", "\\U00010CD7">>, <<"\\U00010C98", "\\U00010CD8">>, <<"\\U00010C99", "\\U00010CD9">>,
     <<"\\U00010C9A", "\\U00010CDA">>, <<"\\U00010C9B", "\\U00010CDB">>, <<"\\U00010C9C", "\\U00010CDC">>,
     <<"\\U00010C9D", "\\U00010CDD">>, <<"\\U00010C9E", "\\U00010CDE">>, <<"\\U00010C9F", "\\U00010CDF">>,
     <<"\\U00010CA0", "\\U00010CE0">>, <<"\\U00010CA1", "\\U00010CE1">>, <<"\\U00010CA2", "\\U00010CE2">>,
     <<"\\U00010CA3", "\\U00010CE3">>, <<"\\U00010CA4", "\\U00010CE4">>, <<"\\U00010CA5", "\\U00010CE5">>,
     <<"\\U00010CA6", "\\U00010CE6">>, <<"\\U00010CA7", "\\U00010CE7">>, <<"\\U00010CA8", "\\U00010CE8">>,
     <<"\\U00010CA9", "\\U00010CE9">>, <<"\\U00010CAA", "\\U00010CEA">>, <<"\\U00010CAB", "\\U00010CEB">>,
     <<"\\U00010CAC", "\\U00010CEC">>, <<"\\U00010CAD", "\\U00010CED">>, <<"\\U00010CAE", "\\U00010CEE">>,
     <<"\\U00010CAF", "\\U00010CEF">>, <<"\\U00010CB0", "\\U00010CF0">>, <<"\\U00010CB1", "\\U00010CF1">>,
     <<"\\U00010CB2", "\\U00010CF2">>, <<"\\U000118A0", "\\U000118C0">>, <<"\\U000118A1", "\\U000118C1">>,
     <<"\\U000118A2", "\\U000118C2">>, <<"\\U000118A3", "\\U000118C3">>, <<"\\U000118A4", "\\U000118C4">>,
     <<"\\U000118A5", "\\U000118C5">>, <<"\\U000118A6", "\\U000118C6">>, <<"\\U000118A7", "\\U000118C7">>,
     <<"\\U000118A8", "\\U000118C8">>, <<"\\U000118A9", "\\U000118C9">>, <<"\\U000118AA", "\\U000118CA">>,
     <<"\\U000118AB", "\\U000118CB">>, <<"\\U000118AC", "\\U000118CC">>, <<"\\U000118AD", "\\U000118CD">>,
     <<"\\U000118AE", "\\U000118CE">>, <<"\\U000118AF", "\\U000118CF">>, <<"\\U000118B0", "\\U000118D0">>,
     <<"\\U000118B1", "\\U000118D1">>, <<"\\U000118B2", "\\U000118D2">>, <<"\\U000118B3", "\\U000118D3">>,
     <<"\\U000118B4", "\\U000118D4">>, <<"\\U000118B5", "\\U000118D5">>, <<"\\U000118B6", "\\U000118D6">>,
     <<"\\U000118B7", "\\U000118D7">>, <<"\\U000118B8", "\\U000118D8">>, <<"\\U000118B9", "\\U000118D9">>,
     <<"\\U000118BA", "\\U000118DA">>, <<"\\U000118BB", "\\U000118DB">>, <<"\\U000118BC", "\\U000118DC">>,
     <<"\\U000118BD", "\\U000118DD">>, <<"\\U000118BE", "\\U000118DE">>, <<"\\U000118BF", "\\U000118DF">>,
     <<"\\U00016E40", "\\U00016E60">>, <<"\\U00016E41", "\\U00016E61">>, <<"\\U00016E42", "\\U00016E62">>,
     <<"\\U00016E43", "\\U00016E63">>, <<"\\U00016E44", "\\U00016E64">>, <<"\\U00016E45", "\\U00016E65">>,
     <<"\\U00016E46", "\\U00016E66">>, <<"\\U00016E47", "\\U00016E67">>, <<"\\U00016E48", "\\U00016E68">>,
     <<"\\U00016E49", "\\U00016E69">>, <<"\\U00016E4A", "\\U00016E6A">>, <<"\\U00016E4B", "\\U00016E6B">>,
     <<"\\U00016E4C", "\\U00016E6C">>, <<"\\U00016E4D", "\\U00016E6D">>, <<"\\U00016E4E", "\\U00016E6E">>,
     <<"\\U00016E4F", "\\U00016E6F">>, <<"\\U00016E50", "\\U00016E70">>, <<"\\U00016E51", "\\U00016E71">>,
     <<"\\U00016E52", "\\U00016E72">>, <<"\\U00016E53", "\\U00016E73">>, <<"\\U00016E54", "\\U00016E74">>,
     <<"\\U00016E55", "\\U00016E75">>, <<"\\U00016E56", "\\U00016E76">>, <<"\\U00016E57", "\\U00016E77">>,
     <<"\\U00016E58", "\\U00016E78">>, <<"\\U00016E59", "\\U00016E79">>, <<"\\U00016E5A", "\\U00016E7A">>,
     <<"\\U00016E5B", "\\U00016E7B">>, <<"\\U00016E5C", "\\U00016E7C">>, <<"\\U00016E5D", "\\U00016E7D">>,
     <<"\\U00016E5E", "\\U00016E7E">>, <<"\\U00016E5F", "\\U00016E7F">>, <<"\\U0001E900", "\\U0001E922">>,
     <<"\\U0001E901", "\\U0001E923">>, <<"\\U0001E902", "\\U0001E924">>, <<"\\U0001E903", "\\U0001E925">>,
     <<"\\U0001E904", "\\U0001E926">>, <<"\\U0001E905", "\\U0001E927">>, <<"\\U0001E906", "\\U0001E928">>,
     <<"\\U0001E907", "\\U0001E929">>, <<"\\U0001E908", "\\U0001E92A">>, <<"\\U0001E909", "\\U0001E92B">>,
     <<"\\U0001E90A", "\\U0001E92C">>, <<"\\U0001E90B", "\\U0001E92D">>, <<"\\U0001E90C", "\\U0001E92E">>,
     <<"\\U0001E90D", "\\U0001E92F">>, <<"\\U0001E90E", "\\U0001E930">>, <<"\\U0001E90F", "\\U0001E931">>,
     <<"\\U0001E910", "\\U0001E932">>, <<"\\U0001E911", "\\U0001E933">>, <<"\\U0001E912", "\\U0001E934">>,
     <<"\\U0001E913", "\\U0001E935">>, <<"\\U0001E914", "\\U0001E936">>, <<"\\U0001E915", "\\U0001E937">>,
     <<"\\U0001E916", "\\U0001E938">>, <<"\\U0001E917", "\\U0001E939">>, <<"\\U0001E918", "\\U0001E93A">>,
     <<"\\U0001E919", "\\U0001E93B">>, <<"\\U0001E91A", "\\U0001E93C">>, <<"\\U0001E91B", "\\U0001E93D">>,
     <<"\\U0001E91C", "\\U0001E93E">>, <<"\\U0001E91D", "\\U0001E93F">>, <<"\\U0001E91E", "\\U0001E940">>,
     <<"\\U0001E91F", "\\U0001E941">>, <<"\\U0001E920", "\\U0001E942">>, <<"\\U0001E921", "\\U0001E943">>}

\* unicode.ToLower on the characters of CaseRanges
WideLower ==
    [c \in {pair[1] : pair \in CaseRanges} |->
        (CHOOSE pair \in CaseRanges : pair[1] = c)[2]]

\* strings.ToLower on one character: the letters A to Z map to a to z, a
\* character above U+007F maps as unicode.ToLower maps it, and every other
\* character stays
ToLowerChar(c) ==
    IF \E k \in 1..Len(UpperCase) : UpperCase[k] = c
    THEN LowerCase[CHOOSE k \in 1..Len(UpperCase) : UpperCase[k] = c]
    ELSE IF c \in DOMAIN WideLower THEN WideLower[c] ELSE c
ToLower(s) == [i \in 1..Len(s) |-> ToLowerChar(s[i])]

\* longRunningPatterns of IsLongRunningCommand, each a literal text
LongRunningPatterns ==
    {<<"p", "y", "t", "h", "o", "n">>,
     <<"p", "y", "t", "h", "o", "n", "3">>,
     <<"n", "o", "d", "e">>,
     <<"n", "p", "m", SP, "s", "t", "a", "r", "t">>,
     <<"n", "p", "m", SP, "r", "u", "n">>,
     <<"g", "o", SP, "r", "u", "n">>,
     <<"s", "e", "r", "v", "e">>,
     <<"s", "e", "r", "v", "e", "r">>,
     <<"u", "v", "i", "c", "o", "r", "n">>,
     <<"g", "u", "n", "i", "c", "o", "r", "n">>,
     <<"f", "l", "a", "s", "k", SP, "r", "u", "n">>,
     <<"r", "a", "i", "l", "s", SP, "s", "e", "r", "v", "e", "r">>,
     <<"p", "h", "p", SP, "-", "S">>,
     <<"j", "a", "v", "a", SP, "-", "j", "a", "r">>,
     <<DOT, SLASH>>,
     <<"w", "a", "t", "c", "h">>,
     <<"t", "a", "i", "l", SP, "-", "f">>,
     <<"p", "i", "n", "g">>,
     <<"c", "u", "r", "l", DOT, "*", "-", "w">>,
     <<"s", "l", "e", "e", "p">>,
     <<"w", "h", "i", "l", "e", SP, "t", "r", "u", "e">>}
IsLongRunningCommand(command) ==
    \E pattern \in LongRunningPatterns : Contains(ToLower(command), pattern)

\* the commands the model asks for: ls, and PING written with U+0130, the
\* capital I with a dot, which strings.ToLower turns into ping
Commands == {<<"l", "s">>, <<"P", "\\u0130", "N", "G">>}

NoEdit == Request(FALSE, FALSE, <<>>, FALSE, <<>>, FALSE, FALSE, <<>>)
NoRaw == RawPath(FALSE, <<>>)

\* a tool call as handleToolCalls sees it: the name, whether the arguments
\* parse as JSON, and the parameters the tools read
ToolCall(name, argsOk, hasPath, path, hasCommand, command, hasPattern, edit) ==
    [name |-> name, argsOk |-> argsOk, hasPath |-> hasPath, path |-> path,
     hasCommand |-> hasCommand, command |-> command,
     hasPattern |-> hasPattern, edit |-> edit]

NoParams(name) == ToolCall(name, TRUE, FALSE, NoRaw, FALSE, <<>>, FALSE, NoEdit)
NoCall == ToolCall("", FALSE, FALSE, NoRaw, FALSE, <<>>, FALSE, NoEdit)

\* the file the agent's tool calls name, below the working directory
AgentPath == RawPath(TRUE, <<<<"a">>, <<"a">>>>)
AgentFile == FileOf(<<"a", SP, "a">>)

\* edits of AgentFile: a no-op, an ambiguous literal, a missing literal, a
\* unique literal
AgentEdits ==
    {Request(TRUE, TRUE, <<"a">>, TRUE, <<"a">>, FALSE, FALSE, <<>>),
     Request(TRUE, TRUE, <<"a">>, TRUE, <<"b">>, FALSE, FALSE, <<>>),
     Request(TRUE, TRUE, <<"b">>, TRUE, <<"a">>, FALSE, FALSE, <<>>),
     Request(TRUE, TRUE, <<"a", SP, "a">>, TRUE, <<"b">>, FALSE, FALSE, <<>>)}

\* the tool calls a response can carry
ToolCalls ==
    {ToolCall(n, TRUE, TRUE, AgentPath, FALSE, <<>>, FALSE, NoEdit) : n \in FolderTools}
    \cup {NoParams(n) : n \in {"read_file", "bash_command", "delete_all"}}
    \cup {ToolCall("bash_command", TRUE, FALSE, NoRaw, TRUE, c, FALSE, NoEdit) :
            c \in Commands}
    \cup {ToolCall("search_code", TRUE, FALSE, NoRaw, FALSE, <<>>, TRUE, NoEdit)}
    \cup {ToolCall("edit_file", TRUE, TRUE, AgentPath, FALSE, <<>>, FALSE, e) :
            e \in AgentEdits}
    \cup {ToolCall(n, FALSE, FALSE, NoRaw, FALSE, <<>>, FALSE, NoEdit) :
            n \in {"bash_command", "read_file"}}

\* filepath.Dir: the path without its last component
Dir(raw) == RawPath(raw.abs, DropLast(raw.comps))

\* the folder handleToolCalls checks for a call of a folder tool
FolderOf(call) == IF call.name = "list_files" THEN call.path ELSE Dir(call.path)

\* a folder check for every tool that names a path
NeedsFolder_AnyPath(call) == call.hasPath

NeedsFolder(call) == call.name \in FolderTools /\ call.hasPath

\* every bash_command with a command taken for long-running
isLongRunning_AnyCommand(call) == call.name = "bash_command" /\ call.hasCommand

isLongRunning(call) ==
    call.name = "bash_command" /\ call.hasCommand
    /\ IsLongRunningCommand(call.command)

\* ------------------------------------------------------------- executors
\* how a tool's system call ends
ExecOutcomes == {"ok", "failed", "timeout"}

\* what a command has written to its standard output and standard error
\* when cmd.CombinedOutput returns
Output == "output"

\* what a tool function returns: its result and its error, nil being <<>>
Returns(result, err) == [result |-> result, err |-> err]

\* Manager.BashCommand, the command ending as o
BashCommand(call, o) ==
    IF ~call.hasCommand THEN Returns(<<>>, Text("command parameter is required"))
    ELSE IF o = "timeout"
    THEN Returns(Text(Output),
                 <<"command timed out after 30 seconds. Output so far: ", Output>>)
    ELSE IF o = "failed"
    THEN Returns(Text(Output), <<"command failed: ", "exit status 1">>)
    ELSE Returns(Text(Output), <<>>)

\* the result executeToolBasedOnResponse keeps of what toolFunc returned
ErrorOr(r) == IF r.err # <<>> THEN <<"Error: ">> \o r.err ELSE r.result

\* toolFunc(params) and the "Error: %v" wrapping of executeToolBasedOnResponse,
\* for the tools that leave the file alone
ToolResult(call, o) ==
    CASE call.name = "read_file" ->
            IF ~call.hasPath
            THEN ErrorOr(Returns(<<>>, Text("path parameter is required")))
            ELSE IF o = "ok" THEN ErrorOr(Returns(Text("file content"), <<>>))
            ELSE ErrorOr(Returns(<<>>, Text("error reading file")))
      [] call.name = "list_files" ->
            IF o = "ok" THEN ErrorOr(Returns(Text("directory listing"), <<>>))
            ELSE ErrorOr(Returns(<<>>, Text("error listing directory")))
      [] call.name = "bash_command" -> ErrorOr(BashCommand(call, o))
      [] call.name = "search_code" ->
            IF ~call.hasPattern
            THEN ErrorOr(Returns(<<>>, Text("pattern parameter is required")))
            ELSE ErrorOr(Returns(Text("matches"), <<>>))

\* the processes a command starts besides its shell: none, or one that
\* outlives the command line and does not hold its output pipe
Spawned == {"none", "detached"}

\* the processes of the group that cmd.Start makes for "bash -c command"
Started(ch) == {"shell"} \cup (IF ch = "detached" THEN {"child"} ELSE {})

\* the processes that end the wait of cmd.CombinedOutput by exiting
Exited(o) == IF o = "timeout" THEN {} ELSE {"shell"}

\* the processes signalled when the deadline passes: exec.CommandContext
\* kills cmd.Process, the shell; nothing signals the group of Setpgid
Killed(o) == IF o = "timeout" THEN {"shell"} ELSE {}

\* the processes of a tool call that run on when its executor has returned
LeftRunning(call, o, ch) ==
    IF call.name = "bash_command" /\ call.hasCommand
    THEN Started(ch) \ (Exited(o) \cup Killed(o))
    ELSE {}

\* the same for BashCommandBackground, which never waits
LeftInBackground(started) == IF started THEN {"shell"} ELSE {}

\* whether toolFunc(params) returned an error
ToolFails(call, o) ==
    CASE call.name = "read_file" -> ~call.hasPath \/ o # "ok"
      [] call.name = "list_files" -> o # "ok"
      [] call.name = "bash_command" -> ~call.hasCommand \/ o # "ok"
      [] call.name = "search_code" -> ~call.hasPattern

ExecKind(failed) == IF failed THEN "failed" ELSE "executed"

\* the signs of the banners as the source holds them: the four characters
\* U+00F0 U+0178 U+0161 U+20AC, and U+00F0 U+0178 U+201C U+201E, each
\* written three times. A character outside ASCII is written as its code
\* point
Rocket == <<"\\u00F0", "\\u0178", "\\u0161", "\\u20AC">>
Page == <<"\\u00F0", "\\u0178", "\\u201C", "\\u201E">>
Rockets == Rocket \o Rocket \o Rocket
Pages == Page \o Page \o Page

\* the line EditFile puts before the result of the mode it took
EditBanner(p) ==
    IF p.hasOld
    THEN Rockets \o <<" INCREMENTAL EDIT MODE (FAST!) ">> \o Rockets \o <<"\n">>
    ELSE IF p.hasNew
    THEN Rockets \o <<" NEW FILE CREATION (FAST!) ">> \o Rockets \o <<"\n">>
    ELSE Pages \o <<" FULL REPLACEMENT MODE (SLOW!) ">> \o Pages \o <<"\n">>

\* what performIncrementalEdit or performFullFileEdit returned without error
EditMessage(res) ==
    CASE res.kind = "created" -> "File %s has been created"
      [] res.kind = "modified" -> "File %s has been modified"
      [] res.kind = "unchanged" -> "File %s unchanged"
      [] OTHER -> "focused diff"

\* the error EditFile returns for parameters p it cannot use
EditParamError(p) ==
    IF ~p.hasPath THEN "filePath parameter is required"
    ELSE IF p.hasOld
    THEN "newString parameter is required when using oldString"
    ELSE "either newString (for new files) or oldString+newString (for edits) or content (for full replacement) must be provided"

\* the error EditFile returns, the error of the file system being "%v"
EditError(p, res) ==
    CASE res.err = "noop" ->
            <<"replacement failed: ", "oldString and newString must be different">>
      [] res.err = "nomatch" ->
            <<"replacement failed: ",
              "oldString not found in content or multiple ambiguous matches found">>
      [] res.err = "read" -> <<"error reading file: ", "%v">>
      [] res.err = "write" -> <<"error writing file: ", "%v">>
      [] res.err = "create" -> <<"error creating file: ", "%v">>
      [] OTHER -> Text(EditParamError(p))

\* the same for edit_file, res being what EditFile returned for parameters p
EditText(p, res) ==
    IF res.ok THEN ErrorOr(Returns(EditBanner(p) \o <<EditMessage(res)>>, <<>>))
    ELSE ErrorOr(Returns(<<>>, EditError(p, res)))

\* Manager.BashCommandBackground
BashCommandBackground(call, started) ==
    IF ~call.hasCommand THEN "Error: command parameter is required"
    ELSE IF started THEN "Command started in background"
    ELSE "Failed to start command in background"

Interrupted == "Tool execution interrupted by user. New instruction: do this instead"

\* the operator's answers to the confirmation prompt, lower-cased and trimmed
ConfirmAnswers ==
    YesAnswers \cup {"s", "skip", "b", "background", "i", "interrupt", "n"}
\* the operator's answers to "What would you like me to do instead?", trimmed
Instructions == {"", "do this instead"}

\* the PromptTokens of the responses of a turn that stays below every
\* threshold, and the failures of its requests: errors that match none of
\* the patterns of Chat
LowUsages == {1000}
PlainFailures == {"other"}

\* an executor that ran for call id, and the processes it had started that
\* were running when it returned
Ran(id, name, how, left) == [id |-> id, name |-> name, how |-> how, left |-> left]
Prompted(id, kind) == [id |-> id, kind |-> kind]
\* how the iteration of handleToolCalls for call id ended
Outcome(id, kind) == [id |-> id, kind |-> kind]

\* AGENTS.md in the working directory: whether os.ReadFile reads it, and its
\* text
AgentsFile(readable, content) == [readable |-> readable, content |-> content]
NoAgentsFile == AgentsFile(FALSE, <<>>)
AgentsFiles == {NoAgentsFile, AgentsFile(TRUE, <<SP, NL>>), AgentsFile(TRUE, <<"a">>)}

\* LoadProjectContext: the conversation with the system message of a readable
\* AGENTS.md that is not blank
LoadProjectContext(conversation, agentsFile) ==
    IF agentsFile.readable /\ TrimSpace(agentsFile.content) # <<>>
    THEN Append(conversation, ProjectContextMsg)
    ELSE conversation

\* the conversations of New
NewConversations == {LoadProjectContext(<<>>, f) : f \in AgentsFiles}

\* the keys of Config.Models, which no command changes once the
\* configuration is loaded: two of the models LoadOrCreateConfig writes
Models == {"qwen3-coder", "claude"}
\* current_model of a configuration file that names a model it does not list
MissingModel == "missing"
\* current_model of the configurations a session starts with
CurrentModels == {"qwen3-coder", MissingModel}

\* New where AGENTS.md is agentsFile and the configuration names
\* currentModel: no Chat has been called. A current model that is not among
\* the models is warned about and kept
AgentNew(agentsFile, currentModel) ==
    /\ Conversation = LoadProjectContext(<<>>, agentsFile)
    /\ LastTokenUsage = NoUsage
    /\ CurrentModel = currentModel
    /\ pc = "idle"
    /\ chatErr = "none"
    /\ toolCalls = <<>>
    /\ idx = 0
    /\ cur = NoCall
    /\ pending = <<>>
    /\ sent = <<>>
    /\ ran = <<>>
    /\ prompts = <<>>
    /\ outcomes = <<>>
    /\ callResponse = ""
    /\ nextId = 1

\* the session the calls checked on their own are made in: no AGENTS.md, no
\* folder approved and the model of the default configuration, none of which
\* these calls read
Bare == AgentNew(NoAgentsFile, "qwen3-coder") /\ GateNew(<<>>)

\* ------------------------------------------- the edit engine on its own
NewTexts == {<<>>, <<"b">>, <<"a", "a">>}

\* the requests the model can make: incremental edits, creations, full
\* replacements and requests with missing parameters
Requests ==
    {Request(TRUE, TRUE, o, TRUE, n, a, FALSE, <<>>) :
        o \in StringsUpTo(MaxOldLen), n \in NewTexts, a \in BOOLEAN}
    \cup {Request(TRUE, TRUE, o, TRUE, o, a, FALSE, <<>>) :
        o \in StringsUpTo(MaxOldLen), a \in BOOLEAN}
    \cup {Request(TRUE, FALSE, <<>>, TRUE, n, FALSE, FALSE, <<>>) : n \in NewTexts}
    \cup {Request(TRUE, FALSE, <<>>, FALSE, <<>>, FALSE, TRUE, n) : n \in NewTexts}
    \cup {Request(TRUE, TRUE, <<"a">>, FALSE, <<>>, FALSE, FALSE, <<>>),
          Request(TRUE, FALSE, <<>>, FALSE, <<>>, FALSE, FALSE, <<>>),
          Request(FALSE, TRUE, <<"a">>, TRUE, <<"b">>, FALSE, FALSE, <<>>)}

Files == {NoFile} \cup {FileOf(d) : d \in StringsUpTo(MaxContentLen)}

EditInit ==
    /\ epc = "ready"
    /\ file \in Files
    /\ file0 = file
    /\ req \in Requests
    /\ editRes = NoResult
    /\ writes = 0
    /\ repRes = NoReplaceResult
    /\ Bare

\* the state after an edit_file call that returned r
Returned(r) ==
    /\ file' = r.file
    /\ editRes' = r.res
    /\ writes' = writes + r.writes

\* one edit_file call, from the parameters to the returned result
EditFile ==
    /\ epc = "ready"
    /\ \E w \in WriteOutcomes : Returned(EditFileCall(file, req, w))
    /\ epc' = "done"
    /\ UNCHANGED <<file0, req, repRes>>
    /\ UNCHANGED <<folderVars, agentVars>>

\* one direct call ReplaceInContent(content, oldString, newString, replaceAll)
\* on the content of the file
ReplaceCall ==
    /\ epc = "ready"
    /\ file.exists /\ req.hasPath /\ req.hasOld /\ req.hasNew
    /\ repRes' = ReplaceInContent(file.data, req.oldString, req.newString,
                                  req.replaceAll)
    /\ epc' = "replaced"
    /\ UNCHANGED <<file, file0, req, editRes, writes>>
    /\ UNCHANGED <<folderVars, agentVars>>

EditNext == EditFile \/ ReplaceCall

EditSpec == EditInit /\ [][EditNext]_vars


\* ---------------------------------------- the permission gate on its own
EditIdle ==
    /\ epc = "idle"
    /\ file = NoFile
    /\ file0 = NoFile
    /\ req = Request(FALSE, FALSE, <<>>, FALSE, <<>>, FALSE, FALSE, <<>>)
    /\ editRes = NoResult
    /\ writes = 0
    /\ repRes = NoReplaceResult

\* the gate after New; the conversation, which the gate does not read, is
\* the one of a directory without AGENTS.md
FolderInit == EditIdle /\ GateIdle /\ AgentNew(NoAgentsFile, "qwen3-coder")

Check ==
    /\ \E p \in RawPaths : CheckFolder(p)
    /\ UNCHANGED <<editVars, agentVars>>

\* a request for a covered path returns before any prompt; one that can add
\* a folder is made only while fewer than MaxApproved folders are approved
Grant ==
    /\ \E p \in RawPaths :
          IF IsAbsApproved(ApprovedFolders, AbsOf[p])
          THEN RequestFolderPermission(p, "")
          ELSE /\ Cardinality(ApprovedFolders) < MaxApproved
               /\ \E r \in FolderAnswers : RequestFolderPermission(p, r)
    /\ UNCHANGED <<editVars, agentVars>>

Remove ==
    /\ \E p \in RawPaths : RemoveFolderPermission(p)
    /\ UNCHANGED <<editVars, agentVars>>

Restart ==
    /\ LoadApprovedFolders
    /\ UNCHANGED <<editVars, agentVars>>

FolderNext == Check \/ Grant \/ Remove \/ Restart

FolderSpec == FolderInit /\ [][FolderNext]_vars

\* ------------------------------------------------------------- the turn
\* the sessions a turn is followed in: one started in a directory no session
\* was in before, one started in a project whose AGENTS.md an earlier
\* /init wrote and whose folder an earlier session approved, and one
\* started with a configuration file whose current model is not among its
\* models
Session(agentsFile, approvedFolders, currentModel) ==
    [agentsFile |-> agentsFile, approvedFolders |-> approvedFolders,
     currentModel |-> currentModel]
Sessions ==
    {Session(NoAgentsFile, <<>>, "qwen3-coder"),
     Session(AgentsFile(TRUE, <<"a">>), <<Cwd>>, "qwen3-coder"),
     Session(NoAgentsFile, <<>>, MissingModel)}

\* New, and the file the tool calls of the turn name
Init ==
    /\ \E session \in Sessions :
          /\ AgentNew(session.agentsFile, session.currentModel)
          /\ GateNew(session.approvedFolders)
    /\ epc = "idle"
    /\ file = AgentFile
    /\ file0 = AgentFile
    /\ req = NoEdit
    /\ editRes = NoResult
    /\ writes = 0
    /\ repRes = NoReplaceResult

\* no Chat is running: none was called yet, or the last one has returned
BetweenTurns == pc \in {"idle", "returned"}

\* a Chat that starts every turn from a new conversation
ChatStart_Fresh ==
    /\ BetweenTurns
    /\ Conversation' = <<SystemMsg, UserMsg("message")>>
    /\ pc' = "request"
    /\ chatErr' = "running"
    /\ toolCalls' = <<>>
    /\ idx' = 0
    /\ cur' = NoCall
    /\ pending' = <<>>
    /\ sent' = <<>>
    /\ ran' = <<>>
    /\ prompts' = <<>>
    /\ outcomes' = <<>>
    /\ callResponse' = ""
    /\ nextId' = 1
    /\ UNCHANGED LastTokenUsage
    /\ UNCHANGED <<editVars, folderVars>>
    /\ UNCHANGED CurrentModel

\* Chat up to its loop, called for a user message when no Chat is running:
\* the system message when the conversation is empty, and the user's
\* message. The records of the turn (sent, ran, prompts, outcomes and the
\* ids of its calls) start anew
ChatStart ==
    /\ BetweenTurns
    /\ Conversation' =
         (IF Len(Conversation) = 0 THEN <<SystemMsg>> ELSE Conversation)
         \o <<UserMsg("message")>>
    /\ pc' = "request"
    /\ chatErr' = "running"
    /\ toolCalls' = <<>>
    /\ idx' = 0
    /\ cur' = NoCall
    /\ pending' = <<>>
    /\ sent' = <<>>
    /\ ran' = <<>>
    /\ prompts' = <<>>
    /\ outcomes' = <<>>
    /\ callResponse' = ""
    /\ nextId' = 1
    /\ UNCHANGED LastTokenUsage
    /\ UNCHANGED <<editVars, folderVars>>
    /\ UNCHANGED CurrentModel

\* clearContext, the command /new given when no Chat is running: the
\* conversation is emptied and the last usage forgotten. The records of the
\* last turn end with it: what Chat returned is no longer the last thing
\* that happened
ClearContext ==
    /\ BetweenTurns
    /\ Conversation' = <<>>
    /\ LastTokenUsage' = NoUsage
    /\ pc' = "idle"
    /\ chatErr' = "none"
    /\ toolCalls' = <<>>
    /\ idx' = 0
    /\ cur' = NoCall
    /\ pending' = <<>>
    /\ sent' = <<>>
    /\ ran' = <<>>
    /\ prompts' = <<>>
    /\ outcomes' = <<>>
    /\ callResponse' = ""
    /\ nextId' = 1
    /\ UNCHANGED <<editVars, folderVars>>
    /\ UNCHANGED CurrentModel

\* the keys the operator gives to /models: those of the models and one
\* the configuration does not list
ModelKeys == Models \cup {MissingModel}

\* switchModel, the command /models <name> given when no Chat is running:
\* a key of Config.Models becomes the current model, any other key is
\* reported and changes nothing
SwitchModel ==
    /\ BetweenTurns
    /\ \E modelKey \in ModelKeys :
          IF modelKey \in Models THEN CurrentModel' = modelKey
          ELSE UNCHANGED CurrentModel
    /\ UNCHANGED <<Conversation, LastTokenUsage, pc, chatErr, toolCalls, idx,
                   cur, pending, sent, ran, prompts, outcomes, callResponse,
                   nextId>>
    /\ UNCHANGED <<editVars, folderVars>>

\* the tool calls a response may still carry: none in the answer to the
\* last request of the turn
CallsLeft == IF Len(sent) + 1 < MaxRequests THEN MaxCalls - nextId + 1 ELSE 0

\* a response after which Chat returns whatever it carries
Succeed_ReturnsAtOnce(u, n) ==
    /\ LastTokenUsage' = Usage(u)
    /\ Conversation' =
         Append(Conversation, AssistantMsg([k \in 1..n |-> nextId + k - 1]))
    /\ toolCalls' = [k \in 1..n |-> nextId + k - 1]
    /\ nextId' = nextId + n
    /\ idx' = IF n = 0 THEN 0 ELSE 1
    /\ pc' = "returned"
    /\ chatErr' = "nil"
    /\ pending' = <<>>

\* a response with usage u and n tool calls: Chat records the usage, appends
\* the assistant message and either handles the calls or leaves its loop
Succeed(u, n) ==
    /\ LastTokenUsage' = Usage(u)
    /\ Conversation' =
         Append(Conversation, AssistantMsg([k \in 1..n |-> nextId + k - 1]))
    /\ toolCalls' = [k \in 1..n |-> nextId + k - 1]
    /\ nextId' = nextId + n
    /\ idx' = IF n = 0 THEN 0 ELSE 1
    /\ pc' = IF n = 0 THEN "returned" ELSE "call"
    /\ chatErr' = IF n = 0 THEN "nil" ELSE "running"
    /\ pending' = <<>>

\* Chat returns err
Fail(err) ==
    /\ pc' = "returned"
    /\ chatErr' = err
    /\ pending' = <<>>
    /\ UNCHANGED <<Conversation, LastTokenUsage, toolCalls, idx, nextId>>

\* the retry issued as one more full request of the loop
Degrade_FullRequest(kind) ==
    /\ pc' = "request"
    /\ pending' = <<>>
    /\ UNCHANGED <<Conversation, LastTokenUsage, toolCalls, idx, nextId, chatErr>>

\* a failure matching the tool-format or context patterns: Chat trims and
\* stores the conversation when the failure looks like an overflow, and
\* goes on to the fallback request
Degrade(kind) ==
    /\ IF kind = "context"
          \/ (LastTokenUsage.set /\ LastTokenUsage.PromptTokens > OverflowTokens)
       THEN /\ Conversation' = TrimContext(Conversation)
            /\ pending' = TrimContext(Conversation)
       ELSE /\ pending' = RequestMessages(Conversation, LastTokenUsage)
            /\ UNCHANGED Conversation
    /\ pc' = "fallback"
    /\ UNCHANGED <<LastTokenUsage, toolCalls, idx, nextId, chatErr>>

\* one iteration of the loop of Chat up to the answer to its request, the
\* answer being a response with one of usages or a failure of one of kinds.
\* Chat looks the current model up first and returns, nothing sent, when
\* the configuration does not list it
ModelRequestOf(usages, kinds) ==
    /\ pc = "request"
    /\ Len(sent) < MaxRequests
    /\ IF CurrentModel \in Models
       THEN /\ sent' = Append(sent, ModelReq(Conversation,
                                     RequestMessages(Conversation, LastTokenUsage),
                                     TRUE, RequestMaxTokens(LastTokenUsage)))
            /\ \/ \E u \in usages, n \in 0..CallsLeft : Succeed(u, n)
               \/ \E kind \in kinds :
                    IF kind = "other" THEN Fail("error calling API")
                    ELSE Len(sent) + 1 < MaxRequests /\ Degrade(kind)
       ELSE /\ Fail("current model '%s' not found in configuration")
            /\ UNCHANGED sent
    /\ callResponse' = ""
    /\ UNCHANGED <<cur, ran, prompts, outcomes>>
    /\ UNCHANGED <<editVars, folderVars>>
    /\ UNCHANGED CurrentModel

\* the fallback request and its answer
FallbackRequestOf(usages) ==
    /\ pc = "fallback"
    /\ sent' = Append(sent, ModelReq(Conversation, pending, FALSE,
                                     FallbackMaxTokens))
    /\ \/ \E u \in usages, n \in 0..CallsLeft : Succeed(u, n)
       \/ Fail("error calling API (even after fallback)")
    /\ callResponse' = ""
    /\ UNCHANGED <<cur, ran, prompts, outcomes>>
    /\ UNCHANGED <<editVars, folderVars>>
    /\ UNCHANGED CurrentModel

ModelRequest == ModelRequestOf(LowUsages, PlainFailures)

\* the end of one iteration of the loop of handleToolCalls, conv being the
\* conversation then: the next call, or back to the loop of Chat
NextIteration(kind, conv) ==
    /\ Conversation' = conv
    /\ outcomes' = Append(outcomes, Outcome(toolCalls[idx], kind))
    /\ cur' = NoCall
    /\ idx' = idx + 1
    /\ pc' = IF idx < Len(toolCalls) THEN "call" ELSE "request"

\* the break of handleToolCalls
BreakLoop(kind, conv) ==
    /\ Conversation' = conv
    /\ outcomes' = Append(outcomes, Outcome(toolCalls[idx], kind))
    /\ cur' = NoCall
    /\ idx' = idx
    /\ pc' = "request"

\* a Reply that makes handleToolCalls leave its loop
Reply_Breaks(kind, text) ==
    /\ BreakLoop(kind, Append(Conversation, ToolMsg(toolCalls[idx], Text(text))))
    /\ UNCHANGED <<ran, file, editRes, writes>>

\* a result that comes without running anything
Reply(kind, text) ==
    /\ NextIteration(kind, Append(Conversation, ToolMsg(toolCalls[idx], Text(text))))
    /\ UNCHANGED <<ran, file, editRes, writes>>

\* an executor started whose result handleToolCalls does not wait for
RanTool_NoWait(name, how, left, kind, text) ==
    /\ NextIteration(kind, Conversation)
    /\ ran' = Append(ran, Ran(toolCalls[idx], name, how, left))

\* a result of a tool that ran
RanTool(name, how, left, kind, text) ==
    /\ NextIteration(kind, Append(Conversation, ToolMsg(toolCalls[idx], text)))
    /\ ran' = Append(ran, Ran(toolCalls[idx], name, how, left))

\* executeToolBasedOnResponse for an execute response and the append of
\* its result
ExecuteTool(call) ==
    IF call.name \notin RegisteredTools THEN Reply("unknown", "Error: Unknown tool")
    ELSE IF call.name = "edit_file"
    THEN \E w \in WriteOutcomes : \E r \in {EditFileCall(file, call.edit, w)} :
            /\ Returned(r)
            /\ RanTool(call.name, "run", {}, ExecKind(~r.res.ok),
                       EditText(call.edit, r.res))
    ELSE /\ \E o \in ExecOutcomes, ch \in Spawned :
            RanTool(call.name, "run", LeftRunning(call, o, ch),
                    ExecKind(ToolFails(call, o)), ToolResult(call, o))
         /\ UNCHANGED <<file, editRes, writes>>

\* a prompt is shown and handleToolCalls waits for the answer
Prompt(call, kind) ==
    /\ cur' = call
    /\ pc' = kind
    /\ prompts' = Append(prompts, Prompted(toolCalls[idx], kind))
    /\ UNCHANGED <<Conversation, idx, ran, outcomes, file, editRes, writes>>

\* one iteration of the loop of handleToolCalls up to its first prompt, the
\* call being one of calls
BeginCallOf(calls) ==
    /\ pc = "call"
    /\ \E call \in calls :
        /\ callResponse' = IF call.argsOk /\ NeedsFolder(call)
                           /\ IsFolderApproved(ApprovedFolders, FolderOf(call))
                        THEN "y" ELSE ""
        /\ IF ~call.argsOk
           THEN /\ NextIteration("unparsed", Conversation)
                /\ UNCHANGED <<ran, prompts, file, editRes, writes>>
           ELSE IF NeedsFolder(call)
                   /\ IsFolderApproved(ApprovedFolders, FolderOf(call))
           THEN ExecuteTool(call) /\ UNCHANGED prompts
           ELSE Prompt(call, IF NeedsFolder(call) THEN "folder" ELSE "confirm")
    /\ UNCHANGED <<LastTokenUsage, chatErr, toolCalls, pending, sent, nextId>>
    /\ UNCHANGED <<epc, file0, req, repRes, folderVars>>
    /\ UNCHANGED CurrentModel

BeginCall == BeginCallOf(ToolCalls)

\* the answer to the folder prompt of RequestFolderPermission
FolderAnswer ==
    /\ pc = "folder"
    /\ \E r \in FolderAnswers :
        /\ RequestFolderPermission(FolderOf(cur), r)
        /\ callResponse' = IF r \in YesAnswers THEN "y" ELSE ""
        /\ IF r \in YesAnswers THEN ExecuteTool(cur)
           ELSE Reply("refused", "Permission denied for folder access")
    /\ UNCHANGED <<LastTokenUsage, chatErr, toolCalls, pending, sent, nextId, prompts>>
    /\ UNCHANGED <<epc, file0, req, repRes>>
    /\ UNCHANGED CurrentModel

\* the answer to the confirmation prompt, one of answers
ConfirmAnswerOf(answers) ==
    /\ pc = "confirm"
    /\ \E r \in answers :
        /\ callResponse' = r
        /\ IF r \in YesAnswers THEN ExecuteTool(cur) /\ UNCHANGED prompts
           ELSE IF r \in {"s", "skip"}
           THEN Reply("skipped", "Tool execution skipped by user") /\ UNCHANGED prompts
           ELSE IF r \in {"b", "background"}
           THEN /\ IF isLongRunning(cur)
                   THEN /\ \E started \in BOOLEAN :
                             RanTool(cur.name, "background",
                                     LeftInBackground(started), "background",
                                     Text(BashCommandBackground(cur, started)))
                        /\ UNCHANGED <<file, editRes, writes>>
                   ELSE Reply("no-background",
                              "Background execution only available for long-running commands")
                /\ UNCHANGED prompts
           ELSE IF r \in {"i", "interrupt"}
           THEN Prompt(cur, "interrupt")
           ELSE Reply("denied", "Tool execution denied by user") /\ UNCHANGED prompts
    /\ UNCHANGED <<LastTokenUsage, chatErr, toolCalls, pending, sent, nextId>>
    /\ UNCHANGED <<epc, file0, req, repRes, folderVars>>
    /\ UNCHANGED CurrentModel

ConfirmAnswer == ConfirmAnswerOf(ConfirmAnswers)

\* the answer to "What would you like me to do instead?": with an
\* instruction executeToolBasedOnResponse appends the tool result and the
\* user message and returns (result, false), and handleToolCalls appends the
\* result it got back and breaks
InterruptAnswer ==
    /\ pc = "interrupt"
    /\ \E instruction \in Instructions :
        IF instruction # ""
        THEN BreakLoop("interrupted",
                       Conversation
                       \o <<ToolMsg(toolCalls[idx], Text(Interrupted)),
                            UserMsg(instruction),
                            ToolMsg(toolCalls[idx], Text(Interrupted))>>)
        ELSE NextIteration("no-instruction",
                Append(Conversation, ToolMsg(toolCalls[idx],
                Text("Tool execution interrupted but no alternative instruction provided"))))
    /\ UNCHANGED <<LastTokenUsage, chatErr, toolCalls, pending, sent, nextId,
                   ran, prompts, callResponse>>
    /\ UNCHANGED <<editVars, folderVars>>
    /\ UNCHANGED CurrentModel

\* the first Chat of the session, or the first after /new
FirstChat == pc = "idle" /\ ChatStart

Next ==
    \/ FirstChat
    \/ ModelRequest
    \/ BeginCall
    \/ FolderAnswer
    \/ ConfirmAnswer
    \/ InterruptAnswer

Spec == Init /\ [][Next]_vars

\* ------------------------------------------- a turn late in a session
\* the user's messages and the model's answers of the earlier turns
TurnTexts == <<"message 1", "message 2", "message 3", "message 4", "message 5">>
ReplyTexts == <<"reply 1", "reply 2", "reply 3", "reply 4", "reply 5">>
EarlierTurn(k) ==
    <<UserMsg(TurnTexts[k]), Msg("assistant", 0, Text(ReplyTexts[k]), <<>>)>>

RECURSIVE History(_, _)
\* the conversation after h turns in which the model called no tool, in a
\* session that New started with the conversation new
History(new, h) ==
    IF h = 0 THEN new
    ELSE IF h = 1 THEN (IF Len(new) = 0 THEN <<SystemMsg>> ELSE new) \o EarlierTurn(1)
    ELSE History(new, h - 1) \o EarlierTurn(h)

\* PromptTokens of a response: below every threshold, above the overflow
\* threshold, above the high-water mark
Usages == {1000, 7000, 26000}
\* failures of a request: an error that matches no pattern of Chat, one that
\* matches a tool-format pattern, one that matches a context pattern
Failures == {"other", "format", "context"}
\* the tool calls and the answers of a turn in which the operator denies
\* every tool
PlainCalls == {ToolCall("bash_command", TRUE, FALSE, NoRaw, TRUE, <<"l", "s">>,
                        FALSE, NoEdit)}
DenyAnswers == {"n"}

\* a Chat called after one has returned; it is followed while the
\* conversation holds no more than MaxHistory messages
NextChat == pc = "returned" /\ Len(Conversation) <= MaxHistory /\ ChatStart

\* the session stands after h turns, the last response having usage u; the
\* model answered in these turns, so the current model is among the models
ChatInit ==
    /\ \E h \in 0..MaxHistory, new \in NewConversations :
        /\ Conversation = History(new, h)
        /\ LastTokenUsage \in
             IF h = 0 THEN {NoUsage} ELSE {Usage(u) : u \in Usages}
        /\ CurrentModel \in
             IF h = 0 THEN CurrentModels ELSE CurrentModels \cap Models
    /\ pc = "idle"
    /\ chatErr = "none"
    /\ toolCalls = <<>>
    /\ idx = 0
    /\ cur = NoCall
    /\ pending = <<>>
    /\ sent = <<>>
    /\ ran = <<>>
    /\ prompts = <<>>
    /\ outcomes = <<>>
    /\ callResponse = ""
    /\ nextId = 1
    /\ GateNew(<<>>)
    /\ epc = "idle"
    /\ file = AgentFile
    /\ file0 = AgentFile
    /\ req = NoEdit
    /\ editRes = NoResult
    /\ writes = 0
    /\ repRes = NoReplaceResult

AnyRequest == ModelRequestOf(Usages, Failures)
FallbackRequest == FallbackRequestOf(Usages)
PlainCall == BeginCallOf(PlainCalls)
Denial == ConfirmAnswerOf(DenyAnswers)

ChatNext ==
    \/ FirstChat
    \/ NextChat
    \/ ClearContext
    \/ SwitchModel
    \/ AnyRequest
    \/ FallbackRequest
    \/ PlainCall
    \/ Denial

ChatSpec == ChatInit /\ [][ChatNext]_vars

\* ------------------------------------------------- TrimContext on its own
\* the histories a conversation can be: the system message of New or of the
\* first Chat, if any, and then user, assistant and tool messages
Roles == {"user", "assistant", "tool"}
RoleSeqs(maxLen) == UNION {[1..n -> Roles] : n \in 0..maxLen}
Numbered(roles) == [j \in 1..Len(roles) |-> Msg(roles[j], j, Text("text"), <<>>)]
\* how a conversation starts: with no system message, with the one of Chat,
\* with the one of LoadProjectContext
HistoryStarts == {<<>>, <<SystemMsg>>, <<ProjectContextMsg>>}

TrimInit ==
    /\ \E start \in HistoryStarts, roles \in RoleSeqs(MaxTrimLen) :
          Conversation = start \o Numbered(roles)
    /\ LastTokenUsage = NoUsage
    /\ CurrentModel = "qwen3-coder"
    /\ pc = "idle"
    /\ chatErr = "none"
    /\ toolCalls = <<>>
    /\ idx = 0
    /\ cur = NoCall
    /\ pending = <<>>
    /\ sent = <<>>
    /\ ran = <<>>
    /\ prompts = <<>>
    /\ outcomes = <<>>
    /\ callResponse = ""
    /\ nextId = 1
    /\ GateNew(<<>>)
    /\ epc = "idle"
    /\ file = AgentFile
    /\ file0 = AgentFile
    /\ req = NoEdit
    /\ editRes = NoResult
    /\ writes = 0
    /\ repRes = NoReplaceResult

\* one call TrimContext(a, a.Conversation), its result kept in pending
TrimCall ==
    /\ pc = "idle"
    /\ pending' = TrimContext(Conversation)
    /\ pc' = "trimmed"
    /\ UNCHANGED <<Conversation, LastTokenUsage, chatErr, toolCalls, idx, cur,
                   sent, ran, prompts, outcomes, callResponse, nextId>>
    /\ UNCHANGED <<editVars, folderVars>>
    /\ UNCHANGED CurrentModel

TrimSpec == TrimInit /\ [][TrimCall]_vars

\* the turn under its scheduling: Chat runs on one goroutine that blocks only
\* on the model's answer and on the operator's answer, so a step that is
\* possible is eventually taken once both keep answering
FairChatSpec == ChatSpec /\ WF_vars(ChatNext)

\* ===================================================== the edit engine
\* the inputs of the direct ReplaceInContent call
content0 == file0.data
oldText == req.oldString
newText == req.newString
Replaced == epc = "replaced"

\* s with the n characters at offset i replaced by new
SpliceAt(s, i, n, new) == Slice(s, 0, i) \o new \o Slice(s, i + n, Len(s))

Count(s, sub) == Cardinality(Occurrences(s, sub))

\* C3 (as claimed): when oldText occurs literally two or more times in
\* content, ReplaceInContent with replaceAll=false returns an error and
\* substitutes nothing (stated for a non-empty oldText and a request that is
\* not the no-op, whose error is the no-op one).
C3_AmbiguousLiteralFails ==
    (Replaced /\ ~req.replaceAll /\ oldText # newText /\ oldText # <<>>
        /\ Count(content0, oldText) >= 2)
    => (~repRes.ok /\ repRes.err = "nomatch")

\* C4: with replaceAll=false a successful ReplaceInContent substituted a
\* text that occurs exactly once in content, and the result is content with
\* that one occurrence replaced by newText and nothing else changed.
C4_SubstitutesUniqueLiteral ==
    (Replaced /\ ~req.replaceAll /\ repRes.ok)
    => /\ Count(content0, repRes.match) = 1
       /\ \E i \in Occurrences(content0, repRes.match) :
             repRes.out = SpliceAt(content0, i, Len(repRes.match), newText)

C4_Witness ==
    /\ Replaced /\ ~req.replaceAll /\ repRes.ok
    /\ repRes.strategy = "whitespace-normalized"
    /\ Count(content0, oldText) >= 2

\* C5: a non-empty oldText that differs from newText and occurs exactly once
\* in content is replaced through the exact strategy, and the result is
\* content with that occurrence replaced by newText.
C5_UniqueLiteralExact ==
    (Replaced /\ ~req.replaceAll /\ oldText # <<>> /\ oldText # newText
        /\ Count(content0, oldText) = 1)
    => /\ repRes.ok
       /\ repRes.strategy = "exact"
       /\ \E i \in Occurrences(content0, oldText) :
             repRes.out = SpliceAt(content0, i, Len(oldText), newText)

C5_Witness ==
    /\ Replaced /\ ~req.replaceAll /\ Len(oldText) = 2 /\ oldText # newText
    /\ Count(content0, oldText) = 1 /\ Len(content0) > Len(oldText)
    /\ repRes.ok /\ repRes.out # content0

\* the occurrences strings.ReplaceAll replaces: an occurrence is replaced
\* unless it overlaps an earlier replaced one
ReplacedOccurrences(s, sub) ==
    CHOOSE P \in SUBSET Occurrences(s, sub) :
        \A o \in Occurrences(s, sub) :
            (o \in P) <=> ~(\E p \in P : p < o /\ o < p + Len(sub))

\* out is s with the occurrences P of sub replaced by new and every other
\* character kept
IsReplacementOf(out, s, sub, new, P) ==
    LET d == Len(new) - Len(sub)
        Shift(x) == x + Cardinality({p \in P : p < x}) * d
        Covered(x) == \E p \in P : p <= x /\ x < p + Len(sub)
    IN /\ Len(out) = Len(s) + Cardinality(P) * d
       /\ \A p \in P : Slice(out, Shift(p), Shift(p) + Len(new)) = new
       /\ \A x \in 0..(Len(s) - 1) : ~Covered(x) => out[Shift(x) + 1] = s[x + 1]

\* C6: with replaceAll=true, a non-empty oldText that differs from newText
\* and occurs in content has every occurrence replaced by newText (overlapping
\* occurrences from the left), and no other character changes.
C6_ReplaceAllReplacesEvery ==
    (Replaced /\ req.replaceAll /\ oldText # <<>> /\ oldText # newText
        /\ Count(content0, oldText) >= 1)
    => /\ repRes.ok
       /\ repRes.match = oldText
       /\ IsReplacementOf(repRes.out, content0, oldText, newText,
                          ReplacedOccurrences(content0, oldText))

C6_Witness ==
    /\ Replaced /\ req.replaceAll /\ oldText # <<>> /\ oldText # newText
    /\ Count(content0, oldText) >= 2
    /\ repRes.ok /\ ~Contains(repRes.out, oldText)

\* C7 (as claimed): an edit request whose oldText equals its newText fails
\* with the no-op error and writes nothing, the empty oldText included
\* (stated for a file that exists and is not empty).
C7_NoOpAlwaysFails ==
    (epc = "done" /\ file0.exists /\ file0.data # <<>>
        /\ req.hasPath /\ req.hasOld /\ req.hasNew /\ oldText = newText)
    => (~editRes.ok /\ editRes.err = "noop" /\ writes = 0 /\ file = file0)

\* the 0-based line indexes of the runs of lines of content that equal the
\* given lines once Trim is applied to every line
RunsEqual(lines, wanted, Trim(_)) ==
    {i \in 0..(Len(lines) - Len(wanted)) :
        \A j \in 1..Len(wanted) : Trim(lines[i + j]) = Trim(wanted[j])}

\* the text of the run of n lines that starts at line index i, and its offset
RunText(lines, i, n) == Join(SubSeq(lines, i + 1, i + n))
RunOffset(lines, i) == SumLen(lines, i) + i

\* ReplaceInContent replaced exactly the run of n lines at line index i
ReplacedRun(i, n) ==
    LET lines == Split(content0)
    IN /\ repRes.ok
       /\ repRes.strategy \in {"line-trimmed", "indentation-flexible"}
       /\ repRes.match = RunText(lines, i, n)
       /\ repRes.out = SpliceAt(content0, RunOffset(lines, i),
                                Len(RunText(lines, i, n)), newText)

\* C8 (as claimed): when oldText is not a literal substring of content and
\* exactly one run of lines of content equals the lines of oldText once
\* leading whitespace is ignored, ReplaceInContent (replaceAll=false)
\* succeeds through the line-trimmed or the indentation-flexible strategy
\* and replaces that run (stated for a request that is not the no-op).
C8_LeadingWhitespaceFound ==
    LET runs == RunsEqual(Split(content0), Split(oldText), TrimLeft)
    IN (Replaced /\ ~req.replaceAll /\ oldText # newText
           /\ ~Contains(content0, oldText) /\ Cardinality(runs) = 1)
       => \A i \in runs : ReplacedRun(i, Len(Split(oldText)))

\* the precondition of C8 with what the code adds to it
C8_Pre ==
    LET lines == Split(content0)
        wanted == Split(oldText)
        runs == RunsEqual(lines, wanted, TrimLeft)
    IN /\ Replaced /\ ~req.replaceAll
       /\ oldText # newText
       /\ ~Contains(content0, oldText)
       /\ wanted[Len(wanted)] # <<>>
       /\ Cardinality(runs) = 1
       /\ RunsEqual(lines, wanted, TrimSpace) = runs
       /\ \A i \in runs : Count(content0, RunText(lines, i, Len(wanted))) = 1

\* C8 (amended): when oldText differs from newText, does not end in a
\* newline and is not a literal substring of content, exactly one run of
\* lines of content equals the lines of oldText once leading whitespace is
\* ignored, no other run equals them once trailing whitespace is ignored as
\* well, and the text of that run occurs exactly once in content, then
\* ReplaceInContent (replaceAll=false) succeeds through the line-trimmed or
\* the indentation-flexible strategy and replaces that run.
C8_LeadingWhitespaceFoundUnique ==
    C8_Pre => \A i \in RunsEqual(Split(content0), Split(oldText), TrimLeft) :
                  ReplacedRun(i, Len(Split(oldText)))

C8_Witness ==
    /\ C8_Pre
    /\ Len(Split(content0)) >= 2
    /\ TrimLeft(oldText) # oldText
    /\ repRes.ok /\ repRes.match # oldText /\ Len(repRes.match) > 0

\* ================================================= the permission gate
\* q is p or lies below p
IsSelfOrDescendant(q, p) == Len(q) >= Len(p) /\ SubSeq(q, 1, Len(p)) = p

\* C10 (as claimed): IsFolderApproved returns true for every approved folder
\* and for every path below one, whatever the names of its components.
C10_ApprovedCoversDescendants ==
    (gate.op = "check"
        /\ \E P \in ApprovedFolders : IsSelfOrDescendant(gate.path, P))
    => gate.ok

\* C11: a check answers true only for a path that is an approved folder or
\* lies below one; no sibling and no ancestor of an approved folder passes.
C11_ApprovedOnlyBelow ==
    (gate.op = "check" /\ gate.ok)
    => \E P \in ApprovedFolders : IsSelfOrDescendant(gate.path, P)

\* a check of a path strictly below an approved folder that answers true
C11_Witness ==
    /\ gate.op = "check"
    /\ gate.ok
    /\ gate.path \notin ApprovedFolders
    /\ \E P \in ApprovedFolders : IsSelfOrDescendant(gate.path, P)

\* ======================================================== the turn loop
Last(s) == s[Len(s)]
Ids(log) == {log[j].id : j \in 1..Len(log)}
IsResultOf(id, m) == m.role = "tool" /\ m.id = id
ResultsOf(msgs, id) == SelectSeq(msgs, LAMBDA m : IsResultOf(id, m))

\* the position of the assistant message that carries the batch
BatchStart ==
    CHOOSE j \in 1..Len(Conversation) :
        Conversation[j].role = "assistant" /\ Conversation[j].calls = toolCalls
\* the messages the conversation gained since handleToolCalls was called
Gained == SubSeq(Conversation, BatchStart + 1, Len(Conversation))

\* handleToolCalls went through the whole batch and returned
BatchDone == pc = "request" /\ Len(toolCalls) > 0 /\ idx = Len(toolCalls) + 1
\* handleToolCalls left its loop at call idx and returned
BatchBroken == pc = "request" /\ Len(toolCalls) > 0 /\ idx <= Len(toolCalls)
InterruptIssued ==
    \E j \in 1..Len(prompts) :
        prompts[j].kind = "interrupt"
        /\ \E k \in 1..Len(toolCalls) : prompts[j].id = toolCalls[k]

\* C1: when handleToolCalls has gone through a batch in which no interrupt
\* was answered and Chat is about to issue its next request, the messages
\* gained since the batch began are exactly one tool message per call, with
\* the ids of the calls in the order of the calls.
C1_OneResultPerCall ==
    (BatchDone /\ ~InterruptIssued)
    => /\ Len(Gained) = Len(toolCalls)
       /\ \A k \in 1..Len(Gained) : IsResultOf(toolCalls[k], Gained[k])

\* C2: when the operator interrupts call idx with an instruction and Chat
\* is about to issue its next request, no later call of the batch was
\* prompted, run or handled, the executor of call idx was not run, and the
\* conversation gained one tool result for call idx followed by one user
\* message with the instruction, which is the last message of the request.
C2_InterruptAbortsBatch ==
    BatchBroken
    => /\ \A k \in (idx + 1)..Len(toolCalls) :
            toolCalls[k] \notin Ids(prompts) \cup Ids(ran) \cup Ids(outcomes)
       /\ toolCalls[idx] \notin Ids(ran)
       /\ Len(ResultsOf(Gained, toolCalls[idx])) = 1
       /\ Len(SelectSeq(Gained, LAMBDA m : m.role = "user")) = 1
       /\ Len(Gained) >= 2
       /\ IsResultOf(toolCalls[idx], Gained[Len(Gained) - 1])
       /\ Last(Gained) = UserMsg("do this instead")
       /\ Last(RequestMessages(Conversation, LastTokenUsage))
            = UserMsg("do this instead")

\* the answers that make executeToolBasedOnResponse run something
RunAnswers == YesAnswers \cup {"b", "background"}

\* C12: a step that starts the executor of a tool other than read_file,
\* list_files and preview_edit is the answer to the confirmation prompt shown
\* for that very call, and the answer is an execute or a background
\* response, whatever folders are approved.
C12_OnlyReadToolsAutoExecute ==
    [][(ran' # ran /\ Last(ran').name \notin FolderTools)
       => /\ pc = "confirm"
          /\ Last(prompts) = Prompted(toolCalls[idx], "confirm")
          /\ Last(ran').id = toolCalls[idx]
          /\ Last(ran').name = cur.name
          /\ callResponse' \in RunAnswers]_vars

\* an edit_file call that ran after its prompt while a folder was approved
C12_Witness ==
    /\ Len(ran) > 0
    /\ Last(ran).name = "edit_file"
    /\ ApprovedFolders # {}
    /\ \E j \in 1..Len(prompts) : prompts[j] = Prompted(Last(ran).id, "confirm")

\* the outcomes of a call that are no interrupt: an executor error, an
\* unknown tool, a skip, a denial, a refused folder permission
NonStopping == {"failed", "unknown", "skipped", "denied", "refused"}
HandlingCall == pc \in {"call", "folder", "confirm", "interrupt"}
EndedWith(id, kinds) ==
    \E j \in 1..Len(outcomes) : outcomes[j].id = id /\ outcomes[j].kind \in kinds
\* a request issued after the result of call id was appended
RequestedWith(id) ==
    \E r \in 1..Len(sent) : Len(ResultsOf(sent[r].messages, id)) > 0

\* C9: a call of the batch that ended with an executor error, an unknown
\* tool, a skip, a denial or a refused folder permission has exactly one
\* tool message; handleToolCalls has moved past it and is handling a later
\* call, or has returned and Chat is about to issue or has issued a further
\* request; and only an interrupt makes handleToolCalls leave its loop early.
C9_OutcomesNeverStop ==
    \A k \in 1..Len(toolCalls) :
        EndedWith(toolCalls[k], NonStopping)
        => /\ Len(ResultsOf(Conversation, toolCalls[k])) = 1
           /\ idx > k
           /\ \/ HandlingCall /\ idx <= Len(toolCalls)
              \/ pc = "request"
              \/ RequestedWith(toolCalls[k])
           /\ BatchBroken => Last(outcomes) = Outcome(toolCalls[idx], "interrupted")

\* a failed edit and a refused folder permission, each with its tool message,
\* followed by a further model request
C9_Witness ==
    /\ Len(outcomes) = 2
    /\ Len(toolCalls) = 2
    /\ outcomes[1] = Outcome(toolCalls[1], "failed")
    /\ editRes.err = "nomatch"
    /\ outcomes[2] = Outcome(toolCalls[2], "refused")
    /\ RequestedWith(toolCalls[1])
    /\ RequestedWith(toolCalls[2])

\* ================================================== the loop of Chat
Range(s) == {s[j] : j \in 1..Len(s)}
\* the messages Chat held and left out of request r
Dropped(r) == Range(r.held) \ Range(r.messages)

\* C13 (as claimed): a message that the high-water trim left out of a
\* request is in no later request of the session.
C13_TrimNeverRegrows ==
    \A r \in 1..Len(sent), q \in 1..Len(sent) :
        (r < q /\ sent[r].tools)
        => Dropped(sent[r]) \cap Range(sent[q].messages) = {}

FallbackError == "error calling API (even after fallback)"

\* C14 (as claimed): a request without tools is the one retry of the failed
\* request before it, carries that request's conversation trimmed and a
\* budget of FallbackMaxTokens tokens; a failed retry ends the turn with
\* its error and is the last request.
C14_OneTrimmedRetry ==
    /\ \A q \in 1..Len(sent) :
         ~sent[q].tools
         => /\ q > 1
            /\ sent[q - 1].tools
            /\ sent[q].messages = TrimContext(sent[q - 1].held)
            /\ sent[q].maxTokens = FallbackMaxTokens
    /\ pc = "fallback" => (Len(sent) > 0 /\ Last(sent).tools)
    /\ chatErr = FallbackError => (pc = "returned" /\ ~Last(sent).tools)

\* C15 (as claimed): when the retry has failed and Chat has returned its
\* error, the conversation is the one held when the failing request was
\* issued.
C15_FailedRetryKeepsHistory ==
    (pc = "returned" /\ chatErr = FallbackError)
    => Conversation = sent[Len(sent) - 1].held

\* Chat has returned success and no response of the turn carried a tool
\* call: the first response had none
PlainTurn == pc = "returned" /\ chatErr = "nil" /\ nextId = 1

\* C16 (as claimed): a turn whose first response has no tool calls made one
\* model call and appended one assistant message, and nothing else, to the
\* conversation it started with.
C16_PlainTurnOneCall ==
    PlainTurn
    => /\ Len(sent) = 1
       /\ Conversation = Append(sent[1].held, AssistantMsg(<<>>))

\* C16 (amended): a turn whose first response has no tool calls made one
\* request with tools, followed only by its retry when it failed, and
\* appended one assistant message, and nothing else, to the conversation
\* the answered request was built from.
C16_PlainTurnOneAnswer ==
    PlainTurn
    => /\ Len(sent) \in {1, 2}
       /\ sent[1].tools
       /\ Len(sent) = 2 => ~sent[2].tools
       /\ Conversation = Append(Last(sent).held, AssistantMsg(<<>>))

\* the retry of a failed first request is answered without tool calls
C16_Witness == PlainTurn /\ Len(sent) = 2 /\ Len(Conversation) > 3

\* C17: Chat returns success only when the last message of the conversation
\* is an assistant message without tool calls, appended after the user's
\* message of the turn; and
\* with the model and the operator answering, a turn whose responses stop
\* carrying tool calls returns (with its error when a request failed).
C17_ReturnsAfterPlainReply ==
    /\ [](pc = "returned" /\ chatErr = "nil"
          => /\ Last(Conversation) = AssistantMsg(<<>>)
             /\ UserMsg("message") \in Range(Conversation))
    /\ (pc = "request" ~> pc = "returned")

\* Chat returns success after a round of tool calls
C17_Witness ==
    /\ pc = "returned" /\ chatErr = "nil"
    /\ Len(outcomes) > 0
    /\ Len(sent) > 1

\* ====================================================== the shell executor
\* a step in which bash_command ran a command to its end
BashRan ==
    /\ ran' # ran
    /\ Last(ran').id = toolCalls[idx]
    /\ Last(ran').name = "bash_command"
    /\ Last(ran').how = "run"
    /\ cur.hasCommand

\* C18 (as claimed): the tool message recorded for a bash_command that ran
\* differs between timeout, non-zero exit and success, and holds the
\* command's output in each of them.
C18_ResultHoldsOutput ==
    [][BashRan
       => /\ Last(Conversation').role = "tool"
          /\ Last(Conversation').id = toolCalls[idx]
          /\ \E o \in ExecOutcomes : Last(Conversation').content = ToolResult(cur, o)
          /\ \A o1, o2 \in ExecOutcomes :
                o1 # o2 => ToolResult(cur, o1) # ToolResult(cur, o2)
          /\ Output \in Range(Last(Conversation').content)]_vars

\* C19 (as claimed): when a bash_command has timed out and its executor has
\* returned, none of the processes it started is running.
C19_TimeoutLeavesNoProcess ==
    [][(BashRan /\ Last(Conversation').content = ToolResult(cur, "timeout"))
       => Last(ran').left = {}]_vars

\* ================================================ one call after another
PromptStates == {"folder", "confirm", "interrupt"}

\* the handling of every call of the batch before call idx has ended, and
\* where an executor ran for it, its result is in the conversation
EarlierCallsDone ==
    \A k \in 1..(idx - 1) :
        /\ toolCalls[k] \in Ids(outcomes)
        /\ toolCalls[k] \in Ids(ran)
           => Len(ResultsOf(Conversation, toolCalls[k])) > 0

\* C20: the calls of a batch are handled one after another. A step shows at
\* most one prompt, for the current call, when no prompt is pending or in
\* answer to the pending confirmation, and runs nothing; a step that runs an
\* executor runs one, for the current call, shows no prompt, and ends with
\* the executor returned and its result appended; either happens only when
\* the handling of every earlier call has ended; and a pending prompt is the
\* last one shown.
C20_OneCallAtATime ==
    [][/\ prompts' # prompts
          => /\ prompts' = Append(prompts, Prompted(toolCalls[idx], pc'))
             /\ pc' \in PromptStates
             /\ pc \in {"call", "confirm"}
             /\ ran' = ran
             /\ EarlierCallsDone
       /\ ran' # ran
          => /\ Len(ran') = Len(ran) + 1
             /\ SubSeq(ran', 1, Len(ran)) = ran
             /\ Last(ran').id = toolCalls[idx]
             /\ prompts' = prompts
             /\ pc' \notin PromptStates
             /\ IsResultOf(toolCalls[idx], Last(Conversation'))
             /\ outcomes' = Append(outcomes, Last(outcomes'))
             /\ Last(outcomes').id = toolCalls[idx]
             /\ EarlierCallsDone
       /\ pc' \in PromptStates
          => Last(prompts') = Prompted(toolCalls'[idx'], pc')]_vars

\* the second call of a batch is prompted while the shell that the first
\* call started in the background is still running
C20_Witness ==
    /\ pc = "confirm"
    /\ idx = 2
    /\ Len(ran) = 1
    /\ ran[1].id = toolCalls[1]
    /\ ran[1].left = {"shell"}
    /\ Len(ResultsOf(Conversation, toolCalls[1])) = 1

\* ===================================================== edits of the file
\* an edit_file call with a path and a newString whose oldString is absent
\* or empty has returned
CreationDone ==
    /\ epc = "done"
    /\ req.hasPath /\ req.hasNew
    /\ (~req.hasOld \/ req.oldString = <<>>)

\* C22: an edit whose oldString is empty or absent runs no strategy and
\* issues one write of newString; when it reports success the file holds
\* exactly newString and is reported as created, and otherwise the error is
\* the one of the failed write.
C22_EmptyOldCreates ==
    CreationDone
    => /\ writes = 1
       /\ editRes.strategy = NoStrategy
       /\ editRes.ok => (file = FileOf(req.newString) /\ editRes.kind = "created")
       /\ ~editRes.ok => editRes.err = "create"

\* an existing file with another content is overwritten and reported created
C22_Witness ==
    /\ CreationDone
    /\ editRes.ok
    /\ file0.exists /\ file0.data # req.newString /\ file0.data # <<>>
    /\ file = FileOf(req.newString)

\* the matches of the k-th strategy for the request, and the usable ones
MatchesOf(k) ==
    CASE k = 1 -> SimpleFindMatches(file.data, req.oldString)
      [] k = 2 -> LineTrimmedFindMatches(file.data, req.oldString)
      [] k = 3 -> WhitespaceNormalizedFindMatches(file.data, req.oldString)
      [] k = 4 -> IndentationFlexibleFindMatches(file.data, req.oldString)
UsableMatches(k) ==
    SelectSeq(MatchesOf(k), LAMBDA m : Usable(file.data, m, req.replaceAll))
WithUsable == {k \in 1..4 : UsableMatches(k) # <<>>}

\* C23: ReplaceInContent substitutes the first usable candidate of the first
\* strategy, in the order exact, line-trimmed, whitespace-normalized,
\* indentation-flexible, that has a usable candidate, and fails only when no
\* strategy has one.
C23_FirstUsableStrategyWins ==
    (epc = "replaced" /\ req.oldString # req.newString)
    => IF WithUsable = {}
       THEN ~repRes.ok /\ repRes.err = "nomatch"
       ELSE /\ repRes.ok
            /\ repRes.strategy = Strategies[SetMin(WithUsable)]
            /\ repRes.match = UsableMatches(SetMin(WithUsable))[1]
            /\ repRes.out = Substitute(file.data, repRes.match, req.newString,
                                       req.replaceAll)

\* the exact strategy has a candidate, none of its candidates is usable, and
\* a later strategy's candidate is substituted
C23_Witness ==
    /\ epc = "replaced" /\ req.oldString # req.newString
    /\ MatchesOf(1) # <<>>
    /\ 1 \notin WithUsable
    /\ repRes.ok
    /\ repRes.strategy # "exact"

\* an edit_file call with oldString and newString has returned
IncrementalDone == epc = "done" /\ req.hasPath /\ req.hasOld /\ req.hasNew

\* what ReplaceInContent returns for the request on the file as it was
Replacement ==
    ReplaceInContent(file0.data, req.oldString, req.newString, req.replaceAll)

\* C30: an incremental edit writes at most once; when the file cannot be
\* read or ReplaceInContent returns an error nothing is written, the file is
\* as it was and the call fails; otherwise the one write is of the string
\* ReplaceInContent returned, which the file holds when the call succeeds.
C30_WritesOnlyOnSuccess ==
    IncrementalDone
    => /\ writes <= 1
       /\ req.oldString # <<>>
          => IF ~file0.exists \/ ~Replacement.ok
             THEN writes = 0 /\ file = file0 /\ ~editRes.ok
             ELSE /\ writes = 1
                  /\ editRes.out = Replacement.out
                  /\ editRes.ok => file = FileOf(Replacement.out)

\* an edit whose oldString occurs in the file fails and leaves the file alone
C30_Witness ==
    /\ IncrementalDone
    /\ req.oldString # <<>> /\ req.oldString # req.newString
    /\ file0.exists
    /\ Contains(file0.data, req.oldString)
    /\ ~editRes.ok
    /\ writes = 0
    /\ file = file0

\* ============================================================ TrimContext
NonSystem(messages) == SelectSeq(messages, NotSystem)
Least(a, b) == IF a < b THEN a ELSE b

\* C24: TrimContext returns a history of at most 3 messages as it is, and of
\* a longer one the system messages followed by the last 6 non-system
\* messages, or all of them when there are fewer, in their order.
C24_TrimKeepsSystemAndRecent ==
    pc = "trimmed"
    => IF Len(Conversation) <= 3 THEN pending = Conversation
       ELSE pending =
              SelectSeq(Conversation, IsSystem)
              \o LastN(NonSystem(Conversation),
                       Least(6, Len(NonSystem(Conversation))))

\* a history with the system message and more than 6 others is trimmed to
\* the system message and the last 6
C24_Witness ==
    /\ pc = "trimmed"
    /\ Len(Conversation) > 7
    /\ IsSystem(Conversation[1])
    /\ Len(pending) = 7
    /\ pending[1] = SystemMsg
    /\ pending[7] = Last(Conversation)

\* ================================================ the confirmation answer
BackgroundAnswers == {"b", "background"}

\* the confirmation prompt of the current call is answered in this step
Answered == pc = "confirm" /\ (outcomes' # outcomes \/ prompts' # prompts)

\* C27: the answer to the confirmation prompt has one outcome, the end of
\* the call's handling or the interrupt prompt; an executor runs only for "",
\* "y" or "yes"; the command is started in the background only for "b" or
\* "background" and a bash_command with a long-running command; every other
\* answer runs nothing.
C27_AnswerGatesExecution ==
    [][Answered
       => /\ (Len(outcomes') = Len(outcomes) + 1 /\ prompts' = prompts)
             \/ (outcomes' = outcomes /\ pc' = "interrupt"
                 /\ prompts' = Append(prompts, Prompted(toolCalls[idx], "interrupt")))
          /\ pc' = "interrupt" <=> callResponse' \in {"i", "interrupt"}
          /\ ran' # ran
             => \/ /\ Last(ran').how = "run"
                   /\ callResponse' \in YesAnswers
                \/ /\ Last(ran').how = "background"
                   /\ callResponse' \in BackgroundAnswers
                   /\ cur.name = "bash_command" /\ cur.hasCommand
                   /\ IsLongRunningCommand(cur.command)
          /\ callResponse' \notin (YesAnswers \cup BackgroundAnswers)
             => ran' = ran]_vars

\* "b" for a command that is not long-running ran nothing
C27_Witness ==
    /\ Len(outcomes) > 0
    /\ Last(outcomes).kind = "no-background"
    /\ callResponse \in BackgroundAnswers
    /\ Last(prompts) = Prompted(Last(outcomes).id, "confirm")
    /\ ran = <<>>

\* ========================================================= append-only
IsPrefix(a, b) == Len(a) <= Len(b) /\ SubSeq(b, 1, Len(a)) = a

\* the step is the trim of a failed request
TrimStep == pc = "request" /\ pc' = "fallback"

\* a step of Chat or of handleToolCalls: after it Chat is running or has
\* returned, which after clearContext it has not
TurnStep == pc' # "idle"

\* C28: every step of a turn keeps the stored messages as a prefix of the
\* new conversation, except the trim, which replaces the conversation by
\* TrimContext of it, a sequence that is not longer.
C28_AppendOnly ==
    [][TurnStep
       => \/ IsPrefix(Conversation, Conversation')
          \/ /\ TrimStep
             /\ Conversation' = TrimContext(Conversation)
             /\ Len(Conversation') <= Len(Conversation)]_vars

\* a trim has made the conversation shorter and the turn has gone on to
\* append to it
C28_Witness ==
    /\ Len(sent) = 2
    /\ Len(sent[2].held) < Len(sent[1].held)
    /\ pc = "confirm"
    /\ IsPrefix(sent[2].held, Conversation)
    /\ Len(Conversation) > Len(sent[2].held)


\* ============================================================ set and list
SetMatchesList ==
    /\ ApprovedFolders = Listed(ConfigFolders)
    /\ Cardinality(Listed(ConfigFolders)) = Len(ConfigFolders)
\* the step is an approved request for a path that was not covered
GrantStep ==
    /\ gate'.op = "request"
    /\ gate'.ok
    /\ ~IsAbsApproved(ApprovedFolders, gate'.path)
\* C29: the approved set always holds exactly the entries of the config's
\* list, which has no duplicates; a request for a covered path and a denied
\* request change neither, an approved request for another path adds its
\* absolute path to both, a removal of a listed path deletes it from both,
\* and a removal of a path that is not listed changes neither.
C29_SetMatchesList ==
    /\ SetMatchesList
    /\ [][/\ SetMatchesList'
          /\ gate'.op = "request" =>
                IF GrantStep
                THEN /\ ApprovedFolders' = ApprovedFolders \cup {gate'.path}
                     /\ ConfigFolders' = Append(ConfigFolders, gate'.path)
                ELSE UNCHANGED <<ApprovedFolders, ConfigFolders>>
          /\ gate'.op = "remove" =>
                IF gate'.path \in Listed(ConfigFolders)
                THEN /\ gate'.path \notin ApprovedFolders'
                     /\ gate'.path \notin Listed(ConfigFolders')
                     /\ ApprovedFolders' = ApprovedFolders \ {gate'.path}
                ELSE UNCHANGED <<ApprovedFolders, ConfigFolders>>]_vars
\* a path below the one approved folder was requested and found covered
C29_Witness ==
    /\ gate.op = "request"
    /\ gate.ok
    /\ ApprovedFolders = Listed(ConfigFolders)
    /\ Len(ConfigFolders) = 1
    /\ gate.path # ConfigFolders[1]
    /\ IsAbsApproved(ApprovedFolders, gate.path)

\* ------------------------------------------------------------ GenerateDiff
contextLines == 3
MaxLines == 9
MaxEdits == 2

min(a, b) == IF a < b THEN a ELSE b
max(a, b) == IF a > b THEN a ELSE b

\* difflib.Match: a[A:A+Size] = b[B:B+Size], offsets from 0
Match(a, b, size) == [A |-> a, B |-> b, Size |-> size]

RECURSIVE RunLen(_, _, _, _, _, _)
\* the length of the longest common prefix of a[i:ahi] and b[j:bhi]
RunLen(a, b, i, ahi, j, bhi) ==
    IF i < ahi /\ j < bhi /\ a[i + 1] = b[j + 1]
    THEN 1 + RunLen(a, b, i + 1, ahi, j + 1, bhi)
    ELSE 0

\* the longest common run of the two windows
LongestRun(a, b, alo, ahi, blo, bhi) ==
    SetMax({0} \cup {RunLen(a, b, i, ahi, j, bhi) :
                        i \in alo..(ahi - 1), j \in blo..(bhi - 1)})

\* the starts in a of the runs of this size
StartsInA(a, b, alo, ahi, blo, bhi, size) ==
    {i \in alo..(ahi - 1) :
        \E j \in blo..(bhi - 1) : RunLen(a, b, i, ahi, j, bhi) = size}

\* the starts in b of the runs of this size that start at i in a
StartsInB(a, b, i, ahi, blo, bhi, size) ==
    {j \in blo..(bhi - 1) : RunLen(a, b, i, ahi, j, bhi) = size}

\* of the longest runs the one that starts earliest in a, and earliest in b
EarliestAt(a, b, i, ahi, blo, bhi, size) ==
    Match(i, SetMin(StartsInB(a, b, i, ahi, blo, bhi, size)), size)

EarliestRun(a, b, alo, ahi, blo, bhi, size) ==
    IF size = 0 THEN Match(alo, blo, 0)
    ELSE EarliestAt(a, b, SetMin(StartsInA(a, b, alo, ahi, blo, bhi, size)),
                    ahi, blo, bhi, size)

\* SequenceMatcher.findLongestMatch, for sequences without junk
findLongestMatch(a, b, alo, ahi, blo, bhi) ==
    EarliestRun(a, b, alo, ahi, blo, bhi, LongestRun(a, b, alo, ahi, blo, bhi))

RECURSIVE matchBlocks(_, _, _, _, _, _)
RECURSIVE MatchedAround(_, _, _, _, _, _, _)
\* the closure matchBlocks of GetMatchingBlocks: the longest match of the
\* window, with the matches of the windows left and right of it
matchBlocks(a, b, alo, ahi, blo, bhi) ==
    MatchedAround(a, b, alo, ahi, blo, bhi,
                  findLongestMatch(a, b, alo, ahi, blo, bhi))

MatchedAround(a, b, alo, ahi, blo, bhi, match) ==
    IF match.Size = 0 THEN <<>>
    ELSE (IF alo < match.A /\ blo < match.B
          THEN matchBlocks(a, b, alo, match.A, blo, match.B)
          ELSE <<>>)
         \o <<match>>
         \o (IF match.A + match.Size < ahi /\ match.B + match.Size < bhi
             THEN matchBlocks(a, b, match.A + match.Size, ahi,
                              match.B + match.Size, bhi)
             ELSE <<>>)

\* two blocks that touch in both sequences
Adjacent(m1, m2) == m1.A + m1.Size = m2.A /\ m1.B + m1.Size = m2.B

RECURSIVE Collapse(_, _)
\* adjacent blocks merged into one
Collapse(done, rest) ==
    IF rest = <<>> THEN done
    ELSE IF done # <<>> /\ Adjacent(Last(done), rest[1])
    THEN Collapse(Append(DropLast(done),
                         Match(Last(done).A, Last(done).B,
                               Last(done).Size + rest[1].Size)),
                  Tail(rest))
    ELSE Collapse(Append(done, rest[1]), Tail(rest))

\* SequenceMatcher.GetMatchingBlocks: the merged blocks and the end block
GetMatchingBlocks(a, b) ==
    Append(Collapse(<<>>, matchBlocks(a, b, 0, Len(a), 0, Len(b))),
           Match(Len(a), Len(b), 0))

\* difflib.OpCode
OpCode(tag, i1, i2, j1, j2) ==
    [Tag |-> tag, I1 |-> i1, I2 |-> i2, J1 |-> j1, J2 |-> j2]

\* the tag of the gap before a block that starts at ai, bj
TagOf(i, j, ai, bj) ==
    IF i < ai /\ j < bj THEN "r"
    ELSE IF i < ai THEN "d"
    ELSE IF j < bj THEN "i"
    ELSE "none"

RECURSIVE OpCodesFrom(_, _, _)
\* the loop of GetOpCodes over the matching blocks, from offsets i, j
OpCodesFrom(i, j, blocks) ==
    IF blocks = <<>> THEN <<>>
    ELSE (IF TagOf(i, j, blocks[1].A, blocks[1].B) = "none" THEN <<>>
          ELSE <<OpCode(TagOf(i, j, blocks[1].A, blocks[1].B),
                        i, blocks[1].A, j, blocks[1].B)>>)
         \o (IF blocks[1].Size = 0 THEN <<>>
             ELSE <<OpCode("e", blocks[1].A, blocks[1].A + blocks[1].Size,
                           blocks[1].B, blocks[1].B + blocks[1].Size)>>)
         \o OpCodesFrom(blocks[1].A + blocks[1].Size,
                        blocks[1].B + blocks[1].Size, Tail(blocks))

\* SequenceMatcher.GetOpCodes
GetOpCodes(a, b) == OpCodesFrom(0, 0, GetMatchingBlocks(a, b))

\* one line of the rendered diff: its kind, the old and new line numbers it
\* prints (0 for none) and the text of the line
Row(kind, oldLineNum, newLineNum, text) ==
    [kind |-> kind, old |-> oldLineNum, new |-> newLineNum, text |-> text]

Marker(kind) == Row(kind, 0, 0, <<>>)
Ellipsis == Marker("ellipsis")

\* the title and the rule every diff starts with
DiffHeader == <<Marker("title"), Marker("rule")>>

\* the lines oldLines[lo:hi] of an equal opcode as context rows
ContextRows(oldLines, op, lo, hi) ==
    [k \in 1..max(hi - lo, 0) |->
        Row("context", lo + k, op.J1 + (lo + k - 1 - op.I1) + 1, oldLines[lo + k])]

\* an equal opcode between two changes that shows every line of any span
BetweenRows_Whole(oldLines, op) == ContextRows(oldLines, op, op.I1, op.I2)

\* an equal opcode between two changes
BetweenRows(oldLines, op) ==
    IF op.I2 - op.I1 > contextLines * 2
    THEN ContextRows(oldLines, op, op.I1, min(op.I1 + contextLines, op.I2))
         \o <<Ellipsis>>
         \o ContextRows(oldLines, op,
                        max(op.I2 - contextLines, op.I1 + contextLines), op.I2)
    ELSE ContextRows(oldLines, op, op.I1, op.I2)

\* an equal opcode with a change before it only
AfterRows(oldLines, op) ==
    ContextRows(oldLines, op, op.I1, min(op.I1 + contextLines, op.I2))

\* an equal opcode before the first change that shows all its lines
BeforeRows_Whole(oldLines, op) == ContextRows(oldLines, op, op.I1, op.I2)

\* an equal opcode with a change after it only
BeforeRows(oldLines, op) ==
    ContextRows(oldLines, op, max(op.I2 - contextLines, op.I1), op.I2)

\* case 'e' of the loop over the opcodes
EqualRows(oldLines, op, hasPreviousChange, hasNextChange) ==
    IF hasPreviousChange /\ hasNextChange THEN BetweenRows(oldLines, op)
    ELSE IF hasPreviousChange THEN AfterRows(oldLines, op)
    ELSE IF hasNextChange THEN BeforeRows(oldLines, op)
    ELSE <<>>

DeletedRows(oldLines, op) ==
    [k \in 1..(op.I2 - op.I1) |-> Row("deleted", op.I1 + k, 0, oldLines[op.I1 + k])]

AddedRows(newLines, op) ==
    [k \in 1..(op.J2 - op.J1) |-> Row("added", 0, op.J1 + k, newLines[op.J1 + k])]

\* the body of the loop for the opcode with index opcodeIdx, counted from 1
OpRows(oldLines, newLines, opcodes, opcodeIdx) ==
    IF opcodes[opcodeIdx].Tag = "e"
    THEN EqualRows(oldLines, opcodes[opcodeIdx],
                   opcodeIdx > 1, opcodeIdx < Len(opcodes))
    ELSE IF opcodes[opcodeIdx].Tag = "r"
    THEN DeletedRows(oldLines, opcodes[opcodeIdx])
         \o AddedRows(newLines, opcodes[opcodeIdx])
    ELSE IF opcodes[opcodeIdx].Tag = "d"
    THEN DeletedRows(oldLines, opcodes[opcodeIdx])
    ELSE AddedRows(newLines, opcodes[opcodeIdx])

RECURSIVE RowsFrom(_, _, _, _)
\* the loop over the opcodes from index opcodeIdx
RowsFrom(oldLines, newLines, opcodes, opcodeIdx) ==
    IF opcodeIdx > Len(opcodes) THEN <<>>
    ELSE OpRows(oldLines, newLines, opcodes, opcodeIdx)
         \o RowsFrom(oldLines, newLines, opcodes, opcodeIdx + 1)

\* the indexes of the opcodes that are changes
Changes(opcodes) == {n \in 1..Len(opcodes) : opcodes[n].Tag # "e"}

\* a first line shown that is always the first line of the file
firstLineShown_Top(oldLines, opcodes) == 0

\* the first old line the diff shows, as an offset from 0
firstLineShown(oldLines, opcodes) ==
    IF Changes(opcodes) = {} THEN Len(oldLines)
    ELSE max(0, opcodes[SetMin(Changes(opcodes))].I1 - contextLines)

\* the last old line the diff shows, as an offset from 0
lastLineShown(oldLines, opcodes) ==
    IF Changes(opcodes) = {} THEN -1
    ELSE min(Len(oldLines) - 1,
             opcodes[SetMax(Changes(opcodes))].I2 + contextLines - 1)

\* the rows after the header when the contents differ
ChangedRows(oldLines, newLines, opcodes) ==
    (IF firstLineShown(oldLines, opcodes) > 0 THEN <<Ellipsis>> ELSE <<>>)
    \o RowsFrom(oldLines, newLines, opcodes, 1)
    \o (IF lastLineShown(oldLines, opcodes) < Len(oldLines) - 1
        THEN <<Ellipsis>> ELSE <<>>)

\* GenerateDiff on strings.Split(oldContent, "\n") and
\* strings.Split(newContent, "\n"); the contents are equal exactly when
\* their lines are
GenerateDiff(oldLines, newLines) ==
    DiffHeader
    \o (IF oldLines = newLines THEN <<Marker("nochanges")>>
        ELSE ChangedRows(oldLines, newLines, GetOpCodes(oldLines, newLines)))

\* --------------------------------------------------- the contents diffed
\* the text of a line an edit writes: an empty line
NewText == <<>>

\* an old content of n lines that are not empty: all different, or all the same
OldContent(n, same) == [k \in 1..n |-> <<IF same THEN 1 ELSE k>>]

EditKinds == {"r", "d", "i"}

\* up to MaxEdits edits of a content of n lines: a line replaced, a line
\* deleted, a line inserted before a line or, at n + 1, after the last one
EditScripts(n) ==
    UNION {{script \in [at -> EditKinds] : (n + 1) \in at => script[n + 1] = "i"} :
             at \in {E \in SUBSET (1..(n + 1)) : Cardinality(E) <= MaxEdits}}

\* what an edit script leaves of line p
Piece(oldLines, script, p) ==
    IF p \notin DOMAIN script THEN <<oldLines[p]>>
    ELSE IF script[p] = "r" THEN <<NewText>>
    ELSE IF script[p] = "d" THEN <<>>
    ELSE <<NewText, oldLines[p]>>

RECURSIVE Edited(_, _, _)
\* the content after the edits from line p on
Edited(oldLines, script, p) ==
    IF p > Len(oldLines)
    THEN IF p \in DOMAIN script THEN <<NewText>> ELSE <<>>
    ELSE Piece(oldLines, script, p) \o Edited(oldLines, script, p + 1)

\* the opcodes GenerateDiff computes, none when the contents are equal
OpCodesOf(oldLines, newLines) ==
    IF oldLines = newLines THEN <<>> ELSE GetOpCodes(oldLines, newLines)

DiffInit ==
    /\ \E n \in 1..MaxLines, same \in BOOLEAN :
          \E script \in EditScripts(n) :
              /\ file0 = OldContent(n, same)
              /\ file = Edited(OldContent(n, same), script, 1)
              /\ Len(file) >= 1
    /\ epc = "idle"
    /\ req = NoEdit
    /\ editRes = <<>>
    /\ repRes = <<>>
    /\ writes = 0
    /\ Bare

\* one call GenerateDiff(oldContent, newContent, filename)
DiffCall ==
    /\ epc = "idle"
    /\ epc' = "diffed"
    /\ repRes' = OpCodesOf(file0, file)
    /\ editRes' = GenerateDiff(file0, file)
    /\ UNCHANGED <<file, file0, req, writes, folderVars, agentVars>>

DiffSpec == DiffInit /\ [][DiffCall]_vars

\* ================================================================ the diff
DiffDone == epc = "diffed"
ContextCount == Cardinality({k \in 1..Len(editRes) : editRes[k].kind = "context"})
EllipsisCount == Cardinality({k \in 1..Len(editRes) : editRes[k].kind = "ellipsis"})
\* the changed regions: the opcodes that are not equal spans
Regions == Cardinality(Changes(repRes))

\* C21: a diff renders at most 2 * contextLines context lines for each
\* changed region and at most one ellipsis marker more than it has changed
\* regions, whatever the number of lines; a diff with one changed region
\* renders at most 7 context lines and 2 ellipsis markers.
C21_OutputBoundedByRegions ==
    DiffDone =>
        /\ ContextCount <= 2 * contextLines * Regions
        /\ EllipsisCount <= Regions + 1
        /\ Regions = 1 => ContextCount <= 7 /\ EllipsisCount <= 2
\* one replaced line in the middle of a file longer than the two windows
C21_Witness ==
    /\ DiffDone
    /\ Regions = 1
    /\ Len(file0) > 2 * contextLines + 1
    /\ ContextCount = 2 * contextLines
    /\ EllipsisCount = 2

\* --------------------------------------------------------------- windows
Greatest(a, b) == IF a > b THEN a ELSE b
\* the positions of the context rows of the rendered diff
ContextAt == {k \in 1..Len(editRes) : editRes[k].kind = "context"}
\* the old line numbers the context rows print
ContextLinesShown == {editRes[k].old : k \in ContextAt}
\* the old line numbers, counted from 1, of an unchanged span
SpanLines(op) == (op.I1 + 1)..op.I2
\* the position of the context row of an old line
PosOf(oldLineNum) == CHOOSE k \in ContextAt : editRes[k].old = oldLineNum
\* the old lines from..to are rendered by rows that follow one another
ShownTogether(from, to) ==
    /\ (from..to) \subseteq ContextLinesShown
    /\ from <= to => PosOf(to) - PosOf(from) = to - from
\* of a span exactly the old lines from..to are rendered
ShowsOnly(op, from, to) ==
    /\ ContextLinesShown \cap SpanLines(op) = from..to
    /\ ShownTogether(from, to)
\* a span between two changes
WindowBetween(op) ==
    IF op.I2 - op.I1 > 2 * contextLines
    THEN /\ ContextLinesShown \cap SpanLines(op)
              = ((op.I1 + 1)..(op.I1 + 3)) \cup ((op.I2 - 2)..op.I2)
         /\ ShownTogether(op.I1 + 1, op.I1 + 3)
         /\ ShownTogether(op.I2 - 2, op.I2)
         /\ editRes[PosOf(op.I1 + 3) + 1].kind = "ellipsis"
         /\ PosOf(op.I2 - 2) = PosOf(op.I1 + 3) + 2
    ELSE ShowsOnly(op, op.I1 + 1, op.I2)
\* the unchanged span with index n of the opcodes is rendered by its window
Windowed(n) ==
    IF n > 1 /\ n < Len(repRes) THEN WindowBetween(repRes[n])
    ELSE IF n < Len(repRes)
    THEN ShowsOnly(repRes[n], Greatest(repRes[n].I1, repRes[n].I2 - 3) + 1,
                   repRes[n].I2)
    ELSE IF n > 1
    THEN ShowsOnly(repRes[n], repRes[n].I1 + 1,
                   Least(repRes[n].I1 + 3, repRes[n].I2))
    ELSE ContextLinesShown = {}
\* the indexes of the opcodes that are unchanged spans
Spans == {n \in 1..Len(repRes) : repRes[n].Tag = "e"}

\* C25: an unchanged span between two changes that is longer than
\* 2 * contextLines is rendered as its first 3 lines, one ellipsis marker and
\* its last 3 lines, and a shorter one whole; a span with a change only after
\* it as its last 3 lines; a span with a change only before it as its first
\* 3 lines; equal contents render no context line; and no unchanged line is
\* rendered twice.
C25_SpansRenderedByWindow ==
    DiffDone =>
        /\ \A n \in Spans : Windowed(n)
        /\ file0 = file => ContextLinesShown = {}
        /\ Cardinality(ContextAt) = Cardinality(ContextLinesShown)
\* two changes with more than 2 * contextLines unchanged lines between them,
\* rendered with a marker after the third of these lines
C25_Witness ==
    /\ DiffDone
    /\ \E n \in Spans :
          /\ n > 1
          /\ n < Len(repRes)
          /\ repRes[n].I2 - repRes[n].I1 > 2 * contextLines
          /\ editRes[PosOf(repRes[n].I1 + 3) + 1].kind = "ellipsis"

\* ------------------------------------------------- the markers at the ends
\* the old line numbers the diff renders, in context rows and deleted rows
OldLinesShown == {editRes[k].old : k \in 1..Len(editRes)} \ {0}
\* the row after the header is a marker
LeadingEllipsis == Len(editRes) > Len(DiffHeader)
                   /\ editRes[Len(DiffHeader) + 1].kind = "ellipsis"
\* the last row is a marker
TrailingEllipsis == Len(editRes) > Len(DiffHeader) + 1
                    /\ editRes[Len(editRes)].kind = "ellipsis"

\* C26: a diff of two different contents renders some old line; it starts
\* with an ellipsis marker exactly when the first old line it renders is not
\* line 1, and ends with one exactly when the last old line it renders is not
\* the last line of the old content.
C26_EndMarkers ==
    (DiffDone /\ file0 # file) =>
        /\ OldLinesShown # {}
        /\ LeadingEllipsis <=> SetMin(OldLinesShown) # 1
        /\ TrailingEllipsis <=> SetMax(OldLinesShown) # Len(file0)
\* a change far from both ends: a marker before line 2 or later and a marker
\* after a line before the last
C26_Witness ==
    /\ DiffDone
    /\ LeadingEllipsis
    /\ TrailingEllipsis
    /\ SetMin(OldLinesShown) > 1
    /\ SetMax(OldLinesShown) < Len(file0)
====
